---- MODULE Spec2Model ----
(***************************************************************************)
(* Liveness registry, health sweeper and alert cooldowns of the            *)
(* centralized store monitoring server (src/server.js, class               *)
(* CentralizedMonitoringServer, lines 2202-3322).                          *)
(*                                                                         *)
(* Time is counted in half minutes: every threshold of the code is a whole *)
(* number of minutes and the spec's buffer is 30 s, so a clock of half     *)
(* minutes tells ">" from ">=" at each of them.                            *)
(*                                                                         *)
(* A store record holds the fields the liveness and alert decisions read   *)
(* (status, last_heartbeat, data); the handlers treat every store alike,   *)
(* so the registry is explored with one store id.                          *)
(***************************************************************************)
EXTENDS Integers, Sequences, FiniteSets, TLC

\* ---------------------------------------------------------------- bounds
\* The clock stops at MaxTime half minutes.
MaxTime == 22
\* At most MaxDbFailures database calls fail.
MaxDbFailures == 2
\* The clock of the ingestion path runs for MaxIngestTicks half minutes.
MaxIngestTicks == 4
\* heartbeat_history and system_stats hold at most MaxRows rows per store.
MaxRows == 3
\* The client makes at most MaxCalls sendHeartbeat and stop calls.
MaxCalls == 3
\* The store client's clock stops at MaxHours hours.
MaxHours == 26
\* The server takes MaxHeartbeats heartbeats whose processing may overlap.
MaxHeartbeats == 3
\* The server queues MaxMails mails in all.
MaxMails == 3
\* Table alerts is followed for its first MaxAlerts rows.
MaxAlerts == 3
\* Beside the sweep and the load, MaxTogether heartbeats arrive at one instant.
MaxTogether == 2

\* ------------------------------------------------------ program constants
alertThresholdMinutes == 5
offlineAlertCooldownMinutes == 5
healthCheckIntervalMinutes == 2
StartupCooldownMinutes == 10
RecoveryCooldownMinutes == 5

\* (a - b) / (1000 * 60) compares in minutes; the clock counts half minutes.
Minutes(m) == 2 * m

\* The 30 s buffer of the specification (T + epsilon).
Epsilon == Minutes(1) \div 2

Stores == {"A"}
\* heartbeatData.store_id of a body without the field
Undefined == "undefined"
\* The keys the registry can hold.
StoreIds == Stores \cup {Undefined}
\* The order in which a Map of the stores is iterated.
StoreOrder == <<"A", Undefined>>

\* null / undefined for a Date
NoTime == -1

VARIABLES
  now,                 \* new Date()
  allStores,           \* this.allStores: Map storeId -> store record
  lastOfflineAlerts,   \* this.lastOfflineAlerts: Map storeId -> Date
  lastRecoveryAlerts,  \* this.lastRecoveryAlerts
  lastStartupAlerts,   \* this.lastStartupAlerts
  dbStores,            \* table stores: store_id -> row
  sentAt,              \* history: instant of the latest sendAlert call of this
                       \* process, per store and kind
  dbFailures,          \* history: the database calls that have failed so far
  last,                \* history: the handler that ran last at this instant and
                       \* its locals
  emitted,             \* history: the sendAlert calls of that handler, in order
  first_seen,          \* field first_seen of the records of this.allStores
  created_at,          \* column created_at of table stores
  heartbeat_history,   \* table heartbeat_history: number of rows per store_id
  system_stats,        \* table system_stats: number of rows per store_id
  alerts,              \* table alerts: the rows (store_id, alert_type, severity)
  dispatched,          \* history: what each sendAlert call of that handler did
  request,             \* history: the HTTP request that handler served
  response,            \* history: the HTTP response it gave
  storeEmailConfig,    \* this.storeEmailConfig: Map key -> addresses
  emailEnabled,        \* this.emailEnabled
  running,             \* client: this.running
  this_isFirstHeartbeat, \* client: this.isFirstHeartbeat
  consecutiveFailures, \* client: this.consecutiveFailures
  localDb,             \* client: this.localDb ("pending" while initLocalDatabase runs)
  heartbeat_buffer,    \* client: table heartbeat_buffer, rows in id order
  heartbeatBuffer,     \* client: this.heartbeatBuffer, the memory fallback
  calls,               \* client: the sendHeartbeat / stop calls made, each with
                       \* the await it stands at
  lastSuccessfulConnection, \* client: this.lastSuccessfulConnection
  nextId,              \* client: the next id of a buffered heartbeat
  clientNow,           \* client: new Date(), in hours
  timezoneOffset,      \* client: hours the process's local time is ahead of UTC
  refused,             \* the ids of the buffered heartbeats the replay endpoint
                       \* answers with an error each time
  created,             \* history: the payloads createHeartbeatPayload has built
  delivered,           \* history: a POST /heartbeat of this process was answered 200
  handed,              \* history: the heartbeats of this process the server has
                       \* answered with 200, in order
  acked,               \* history: the ids of the buffered heartbeats answered 200
  skipped,             \* history: the ids of the buffered heartbeats a drain has
                       \* passed over without a network error
  abandoned,           \* history: the ids of the rows a drain had not posted yet
                       \* when a network error ended it
  closed,              \* client: this.localDb.end() has closed the connection
  stopAt,              \* client: the place of the stop() call among the calls,
                       \* 0 before stop()
  onClosed,            \* history: the statements executed on this.localDb after
                       \* its end()
  lastNetworkSpeed,    \* client: this.lastNetworkSpeed
  networkSpeedHistory, \* client: this.networkSpeedHistory
  payloads,            \* history: the number of payloads built by this process
  lastBuildMeasured,   \* history: getSystemStats of the payload built last has
                       \* called measureNetworkSpeed
  heartbeats,          \* the processHeartbeat calls made, each with its locals
                       \* and the await it stands at
  sweeping,            \* the await the performHealthCheck call stands at
  loading,             \* the await the loadExistingStoresFromDB call stands at,
                       \* with the rows its SELECT has read
  alertLog,            \* table alerts in the order of its INSERTs: the kinds
  outbox,            \* the setImmediate callbacks sendAlert has queued, each
                       \* with its mailOptions
  mailLog              \* history: the transporter.sendMail calls made and how
                       \* each ended

\* The state the liveness and cooldown decisions read and write.
coreVars == <<now, allStores, lastOfflineAlerts, lastRecoveryAlerts,
              lastStartupAlerts, dbStores, sentAt, dbFailures, last, emitted>>
\* The further fields, tables and HTTP traffic of the ingestion path.
ingestVars == <<first_seen, created_at, heartbeat_history, system_stats, alerts,
                dispatched, request, response, storeEmailConfig, emailEnabled>>

\* The store's heartbeat client (src/unnamed/part_000, class StoreHeartbeatClient).
clientEnv == <<clientNow, timezoneOffset, refused>>
clientState == <<running, this_isFirstHeartbeat, consecutiveFailures,
                 lastSuccessfulConnection, localDb, heartbeat_buffer, heartbeatBuffer,
                 calls, nextId>>
clientHistory == <<created, delivered, handed, acked, skipped, abandoned>>
\* The end of the connection to the local database.
shutdownVars == <<closed, stopAt, onClosed>>
\* The network speed cache and what is kept of its use.
speedVars == <<lastNetworkSpeed, networkSpeedHistory, payloads, lastBuildMeasured>>
clientVars == <<clientState, clientEnv, clientHistory, shutdownVars, speedVars>>

\* The sweep and the start-up load followed from await to await, and the
\* order in which the alerts were written.
overlapVars == <<sweeping, loading, alertLog>>
\* The calls of the server followed from await to await.
asyncVars == <<heartbeats, overlapVars>>

\* The mails on their way to the transporter.
mailVars == <<outbox, mailLog>>

vars == <<coreVars, ingestVars, clientVars, asyncVars, mailVars>>

\* Frames: a step of the liveness and cooldown state alone; a step of the
\* server; a step of the client. In each of them a handler of the server runs
\* from its start to its end, no call being left at an await, and the mails
\* it queues are not followed.
ServerCore == UNCHANGED <<ingestVars, clientVars, asyncVars, mailVars>>
ClientIdle == UNCHANGED <<clientVars, asyncVars, mailVars>>
ServerIdle == UNCHANGED <<coreVars, ingestVars, asyncVars, mailVars>>
\* A step of the client within one hour of its clock.
ClockStands == UNCHANGED clientEnv

Kinds == {"startup", "recovery", "offline"}

\* this.lastNetworkSpeed = null
NoSpeed == -1

\* Map helpers
EmptyMap == [x \in {} |-> NoTime]
Has(m, k) == k \in DOMAIN m
MapSet(m, k, v) == [x \in (DOMAIN m) \cup {k} |-> IF x = k THEN v ELSE m[x]]

NoSent == [k \in Kinds |-> NoTime]

\* No performHealthCheck call stands at an await.
NoSweep == [pc |-> "done", store |-> "-"]
\* No loadExistingStoresFromDB call stands at its await.
NoLoad == [pc |-> "done", rows |-> EmptyMap]

\* One sendAlert(storeId, alertType, message, severity) call.
Alert(s, kind, message, severity) ==
  [store |-> s, kind |-> kind, message |-> message, severity |-> severity]

\* sentAt after the calls in the sequence `as`, all made at `now`.
RECURSIVE Record(_, _)
Record(sa, as) ==
  IF as = <<>> THEN sa
  ELSE Record([sa EXCEPT ![Head(as).store][Head(as).kind] = now], Tail(as))

\* op: the handler; store, isStartup: the heartbeat's fields; previous, prevData:
\* status and data of previousState; hydrated: the stores the handler added from
\* table stores; prevSent: sentAt when the handler started.
NoLast == [op |-> "none", store |-> "-", isStartup |-> FALSE, previous |-> "-",
           prevData |-> "-", hydrated |-> {}, prevSent |-> [s \in StoreIds |-> NoSent]]

\* No request served, no response given.
NoRequest == [path |-> "-", store_id |-> "-", is_startup |-> FALSE, timestamp |-> NoTime]
NoResponse == [code |-> 0, status |-> "-", buffered |-> FALSE,
               total_stores_monitored |-> 0]

\* createSampleEmailConfig: addresses for the store and under key "default".
StoreAddresses == {"store@example.com"}
DefaultAddresses == {"default@example.com"}
SampleEmailConfig ==
  [k \in Stores \cup {"default"} |->
     IF k = "default" THEN DefaultAddresses ELSE StoreAddresses]
\* The configurations loadEmailConfiguration can read: any of the keys present.
EmailConfigs ==
  {[k \in K |-> SampleEmailConfig[k]] : K \in SUBSET (Stores \cup {"default"})}

\* StoreHeartbeatClient constructor(config)
ClientInit ==
  /\ running = FALSE
  /\ this_isFirstHeartbeat = TRUE
  /\ consecutiveFailures = 0
  /\ localDb = "pending"
  /\ heartbeat_buffer = <<>>
  /\ heartbeatBuffer = <<>>
  /\ calls = <<>>
  /\ lastSuccessfulConnection = NoTime
  /\ nextId = 1
  /\ clientNow = 0
  /\ timezoneOffset = 0
  /\ refused = {}
  /\ created = <<>>
  /\ delivered = FALSE
  /\ handed = <<>>
  /\ acked = {}
  /\ skipped = {}
  /\ abandoned = {}
  /\ closed = FALSE
  /\ stopAt = 0
  /\ onClosed = {}
  /\ lastNetworkSpeed = NoSpeed
  /\ networkSpeedHistory = <<>>
  /\ payloads = 0
  /\ lastBuildMeasured = FALSE

\* constructor(): the Maps, and the tables before any store is known.
ServerInit ==
  /\ now = 0
  /\ allStores = EmptyMap
  /\ lastOfflineAlerts = EmptyMap
  /\ lastRecoveryAlerts = EmptyMap
  /\ lastStartupAlerts = EmptyMap
  /\ dbStores = EmptyMap
  /\ sentAt = [s \in StoreIds |-> NoSent]
  /\ dbFailures = 0
  /\ last = NoLast
  /\ emitted = <<>>
  /\ first_seen = EmptyMap
  /\ created_at = EmptyMap
  /\ heartbeat_history = [s \in StoreIds |-> 0]
  /\ system_stats = [s \in StoreIds |-> 0]
  /\ alerts = {}
  /\ dispatched = <<>>
  /\ request = NoRequest
  /\ response = NoResponse
  /\ heartbeats = <<>>
  /\ sweeping = NoSweep
  /\ loading = NoLoad
  /\ alertLog = <<>>
  /\ outbox = <<>>
  /\ mailLog = <<>>

\* The server and the client as their constructors leave them.
CoreInit == ServerInit /\ ClientInit

Init ==
  /\ CoreInit
  /\ storeEmailConfig = SampleEmailConfig
  /\ emailEnabled = TRUE

\* ------------------------------------------------------------ persistence
\* A row of table stores with the schema's defaults, no heartbeat yet.
DefaultRow == [status |-> "unknown", last_heartbeat |-> NoTime]

\* saveHeartbeatToDatabase: the upsert of the stores row (committed or rolled back).
saveHeartbeatToDatabase(db, s, dbOk) ==
  IF ~dbOk THEN db
  ELSE MapSet(db, s, [status |-> "online", last_heartbeat |-> now])

\* updateStoreStatusInDB(storeId, "offline", timestamp)
updateStoreStatusInDB(db, s, dbOk) ==
  IF dbOk /\ Has(db, s) THEN [db EXCEPT ![s].status = "offline"] ELSE db

\* The record loadExistingStoresFromDB builds from a row.
LoadedRecord(row) ==
  [status |-> row.status, last_heartbeat |-> row.last_heartbeat, data |-> "null"]

\* The record syncWithDatabase builds from a row.
SyncedRecord(row) ==
  [status |-> row.status, last_heartbeat |-> row.last_heartbeat, data |-> "null"]

\* A database call fails only while fewer than MaxDbFailures have failed.
DbBudget(dbOk) ==
  /\ dbOk \/ dbFailures < MaxDbFailures
  /\ dbFailures' = IF dbOk THEN dbFailures ELSE dbFailures + 1

\* ---------------------------------------------------------------- actions
Tick ==
  /\ now < MaxTime
  /\ now' = now + 1
  /\ last' = NoLast
  /\ emitted' = <<>>
  /\ UNCHANGED <<allStores, lastOfflineAlerts, lastRecoveryAlerts,
                 lastStartupAlerts, dbStores, sentAt, dbFailures>>

\* A store row created outside the server, with the schema's defaults.
ProvisionStore(s) ==
  /\ ~Has(dbStores, s)
  /\ dbStores' = MapSet(dbStores, s, DefaultRow)
  /\ last' = [NoLast EXCEPT !.op = "provision", !.store = s]
  /\ emitted' = <<>>
  /\ UNCHANGED <<now, allStores, lastOfflineAlerts, lastRecoveryAlerts,
                 lastStartupAlerts, sentAt, dbFailures>>

\* shouldSendStartup with the recovery path's 5 minutes.
shouldSendStartup_Short(s) ==
  ~Has(lastStartupAlerts, s) \/ now - lastStartupAlerts[s] > Minutes(RecoveryCooldownMinutes)

\* shouldSendStartup
shouldSendStartup(s) ==
  ~Has(lastStartupAlerts, s) \/ now - lastStartupAlerts[s] > Minutes(StartupCooldownMinutes)

\* shouldSendRecovery
shouldSendRecovery(s) ==
  ~Has(lastRecoveryAlerts, s) \/ now - lastRecoveryAlerts[s] > Minutes(RecoveryCooldownMinutes)

\* The status processHeartbeat reads as the previous one ("NEW" without a record).
PreviousStatus(s) == IF Has(allStores, s) THEN allStores[s].status ELSE "NEW"

wasOffline(s) == PreviousStatus(s) = "offline"
isFirstHeartbeat(s) == ~Has(allStores, s)

\* storeState that keeps the last_heartbeat of an existing record.
storeState_Stale(s) ==
  [status |-> "online",
   last_heartbeat |-> IF Has(allStores, s) THEN allStores[s].last_heartbeat ELSE now,
   data |-> "payload"]

\* storeState with last_heartbeat read from the body's timestamp, the oldest one.
storeState_ClientTime(s) ==
  [status |-> "online", last_heartbeat |-> 0, data |-> "payload"]

\* storeState of processHeartbeat
storeState(s) ==
  [status |-> "online", last_heartbeat |-> now, data |-> "payload"]

\* The alert branches without the isFirstHeartbeat test.
HeartbeatAlerts_FlagOnly(s, isStartup) ==
  IF isStartup THEN
    IF shouldSendStartup(s)
    THEN <<Alert(s, "startup", "has started up", "low")>>
    ELSE <<>>
  ELSE IF wasOffline(s) THEN
    IF shouldSendRecovery(s)
    THEN <<Alert(s, "recovery", "has recovered", "medium")>>
    ELSE <<>>
  ELSE <<>>

\* The alert branches with wasOffline tested before isStartup.
HeartbeatAlerts_RecoveryFirst(s, isStartup) ==
  IF isFirstHeartbeat(s) THEN <<Alert(s, "startup", "has come online", "low")>>
  ELSE IF wasOffline(s) THEN
    IF shouldSendRecovery(s)
    THEN <<Alert(s, "recovery", "has recovered", "medium")>>
    ELSE <<>>
  ELSE IF isStartup THEN
    IF shouldSendStartup(s)
    THEN <<Alert(s, "startup", "has started up", "low")>>
    ELSE <<>>
  ELSE <<>>

\* The sendAlert calls of processHeartbeat.
HeartbeatAlerts(s, isStartup) ==
  IF isFirstHeartbeat(s) THEN <<Alert(s, "startup", "has come online", "low")>>
  ELSE IF isStartup THEN
    IF shouldSendStartup(s)
    THEN <<Alert(s, "startup", "has started up", "low")>>
    ELSE <<>>
  ELSE IF wasOffline(s) THEN
    IF shouldSendRecovery(s)
    THEN <<Alert(s, "recovery", "has recovered", "medium")>>
    ELSE <<>>
  ELSE <<>>

\* this.lastStartupAlerts.set(storeId, timestamp) after a startup alert
StartupAlertsAfter(s, as) ==
  IF as # <<>> /\ as[1].kind = "startup"
  THEN MapSet(lastStartupAlerts, s, now) ELSE lastStartupAlerts

\* The recovery alert sent without its cooldown entry written.
RecoveryAlertsAfter_Forgets(s, as) == lastRecoveryAlerts

\* this.lastRecoveryAlerts.set(storeId, timestamp) after a recovery alert
RecoveryAlertsAfter(s, as) ==
  IF as # <<>> /\ as[1].kind = "recovery"
  THEN MapSet(lastRecoveryAlerts, s, now) ELSE lastRecoveryAlerts

\* POST /heartbeat and POST /heartbeat/buffered: processHeartbeat(req.body)
processHeartbeat(s, isStartup, dbOk) ==
  LET as == HeartbeatAlerts(s, isStartup) IN
  /\ DbBudget(dbOk)
  /\ allStores' = MapSet(allStores, s, storeState(s))
  /\ dbStores' = saveHeartbeatToDatabase(dbStores, s, dbOk)
  /\ lastStartupAlerts' = StartupAlertsAfter(s, as)
  /\ lastRecoveryAlerts' = RecoveryAlertsAfter(s, as)
  /\ emitted' = as
  /\ sentAt' = Record(sentAt, as)
  /\ last' = [NoLast EXCEPT !.op = "heartbeat", !.store = s,
                            !.isStartup = isStartup,
                            !.previous = PreviousStatus(s),
                            !.prevSent = sentAt,
                            !.prevData = IF Has(allStores, s)
                                         THEN allStores[s].data ELSE "-"]
  /\ UNCHANGED <<now, lastOfflineAlerts>>

\* isOffline with the threshold a minute late.
isOffline_Late(store) ==
  now - store.last_heartbeat > Minutes(alertThresholdMinutes + 1)

\* isOffline of performHealthCheck
isOffline(store) == now - store.last_heartbeat > Minutes(alertThresholdMinutes)

\* canSendOfflineAlert(storeId): its answer; when TRUE it also writes
\* lastOfflineAlerts (see OfflineAlertsAfterSweep).
canSendOfflineAlert(s) ==
  \/ ~Has(lastOfflineAlerts, s)
  \/ now - lastOfflineAlerts[s] >= Minutes(offlineAlertCooldownMinutes)

\* The loop body's branches for one store of the registry.
\* The loop body without the `if (!store.last_heartbeat) continue`.
Checked_NoSkip(s) == Has(allStores, s)
Checked(s) == Has(allStores, s) /\ allStores[s].last_heartbeat # NoTime
GoesOffline(s) ==
  Checked(s) /\ isOffline(allStores[s]) /\ allStores[s].status # "offline"
RepeatOffline(s) ==
  /\ Checked(s) /\ isOffline(allStores[s]) /\ allStores[s].status = "offline"
  /\ canSendOfflineAlert(s)

\* The sendAlert calls of one sweep, store by store in `order`.
RECURSIVE SweepAlerts(_)
SweepAlerts(order) ==
  IF order = <<>> THEN <<>>
  ELSE LET s == Head(order) IN
       (IF GoesOffline(s)
          THEN <<Alert(s, "offline", "has gone offline", "critical")>>
        ELSE IF RepeatOffline(s)
          THEN <<Alert(s, "offline", "has been offline", "critical")>>
        ELSE <<>>) \o SweepAlerts(Tail(order))

\* this.lastOfflineAlerts after the loop
OfflineAlertsAfterSweep ==
  [s \in (DOMAIN lastOfflineAlerts) \cup {x \in StoreIds : RepeatOffline(x)} |->
     IF RepeatOffline(s) THEN now ELSE lastOfflineAlerts[s]]

\* this.allStores after the loop
StoresAfterSweep ==
  [s \in DOMAIN allStores |->
     IF GoesOffline(s) THEN [allStores[s] EXCEPT !.status = "offline"]
     ELSE allStores[s]]

\* table stores after the loop's updateStoreStatusInDB calls
DbAfterSweep(updOk) ==
  [s \in DOMAIN dbStores |->
     IF GoesOffline(s) THEN updateStoreStatusInDB(dbStores, s, updOk)[s]
     ELSE dbStores[s]]

\* syncWithDatabase(timestamp): the stores it adds to the registry `reg`.
Hydrated(reg, db, syncOk) ==
  IF syncOk THEN (DOMAIN db) \ (DOMAIN reg) ELSE {}

\* syncWithDatabase without the allStores.has test: every row replaces its record.
syncWithDatabase_Overwrites(reg, db, syncOk) ==
  [s \in (DOMAIN reg) \cup Hydrated(reg, db, syncOk) |->
     IF syncOk /\ Has(db, s) THEN SyncedRecord(db[s]) ELSE reg[s]]

\* syncWithDatabase(timestamp): the registry it leaves.
syncWithDatabase(reg, db, syncOk) ==
  [s \in (DOMAIN reg) \cup Hydrated(reg, db, syncOk) |->
     IF Has(reg, s) THEN reg[s] ELSE SyncedRecord(db[s])]

\* cron.schedule(`*/${healthCheckIntervalMinutes} * * * *`): the instants of
\* the sweeper's ticks.
CronDue == now % Minutes(healthCheckIntervalMinutes) = 0

\* The cron job of startHealthMonitoring: performHealthCheck()
performHealthCheck(updOk, syncOk) ==
  LET as == SweepAlerts(StoreOrder)
      db == DbAfterSweep(updOk)
      nFail == (IF updOk THEN 0 ELSE 1) + (IF syncOk THEN 0 ELSE 1) IN
  /\ CronDue
  /\ updOk \/ \E s \in StoreIds : GoesOffline(s)
  /\ dbFailures + nFail <= MaxDbFailures
  /\ dbFailures' = dbFailures + nFail
  /\ allStores' = syncWithDatabase(StoresAfterSweep, db, syncOk)
  /\ lastOfflineAlerts' = OfflineAlertsAfterSweep
  /\ dbStores' = db
  /\ emitted' = as
  /\ sentAt' = Record(sentAt, as)
  /\ last' = [NoLast EXCEPT !.op = "sweep", !.prevSent = sentAt,
                            !.hydrated = Hydrated(StoresAfterSweep, db, syncOk)]
  /\ UNCHANGED <<now, lastRecoveryAlerts, lastStartupAlerts>>

\* The registry loadExistingStoresFromDB builds.
loadExistingStoresFromDB(loadOk) ==
  IF loadOk THEN [s \in DOMAIN dbStores |-> LoadedRecord(dbStores[s])]
  ELSE EmptyMap

\* The server process is started again: constructor()
Restart(loadOk) ==
  /\ DbBudget(loadOk)
  /\ allStores' = loadExistingStoresFromDB(loadOk)
  /\ lastOfflineAlerts' = EmptyMap
  /\ lastRecoveryAlerts' = EmptyMap
  /\ lastStartupAlerts' = EmptyMap
  /\ sentAt' = [s \in StoreIds |-> NoSent]
  /\ emitted' = <<>>
  /\ last' = [NoLast EXCEPT !.op = "restart",
                            !.hydrated = DOMAIN loadExistingStoresFromDB(loadOk)]
  /\ UNCHANGED <<now, dbStores>>

\* The liveness and cooldown state alone: the ingestion path's further state
\* and the client stay as constructed.
Next ==
  \/ Tick /\ ServerCore
  \/ \E s \in Stores : ProvisionStore(s) /\ ServerCore
  \/ \E s \in Stores, isStartup \in BOOLEAN, dbOk \in BOOLEAN :
       processHeartbeat(s, isStartup, dbOk) /\ ServerCore
  \/ \E updOk \in BOOLEAN, syncOk \in BOOLEAN : performHealthCheck(updOk, syncOk) /\ ServerCore
  \/ \E loadOk \in BOOLEAN : Restart(loadOk) /\ ServerCore

Spec == Init /\ [][Next]_vars

\* -------------------------------------------------------- ingestion path
\* The server is constructed over the database an earlier process left, at a
\* cron instant more than the threshold after that process's last heartbeat.
IngestStart == Minutes(alertThresholdMinutes + 1)

\* The same handlers with the rest of what they write: first_seen, the tables
\* heartbeat_history, system_stats and alerts, the mails and the HTTP answer.

\* The schema's ENUM of alerts.alert_type.
AlertTypes == {"offline", "system_warning", "camera_failure", "test"}

\* alertTypeMapping of sendAlert
alertTypeMapping == [startup |-> "test", recovery |-> "test", offline |-> "offline"]

\* dbAlertType without the mapping: the kind itself is written.
dbAlertType_Raw(kind) == kind

\* dbAlertType = alertTypeMapping[alertType] || "offline"
dbAlertType(kind) ==
  IF kind \in DOMAIN alertTypeMapping THEN alertTypeMapping[kind] ELSE "offline"

\* getEmailRecipients with the default addresses added to the store's.
getEmailRecipients_Merged(s) ==
  (IF Has(storeEmailConfig, s) THEN storeEmailConfig[s] ELSE {}) \cup
  (IF Has(storeEmailConfig, "default") THEN storeEmailConfig["default"] ELSE {})

\* getEmailRecipients(storeId)
getEmailRecipients(s) ==
  LET storeEmails == IF Has(storeEmailConfig, s) THEN storeEmailConfig[s] ELSE {}
      defaultEmails == IF Has(storeEmailConfig, "default")
                       THEN storeEmailConfig["default"] ELSE {}
  IN IF storeEmails # {} THEN storeEmails ELSE defaultEmails

\* sendAlert with the mail queued whether or not the insert succeeded.
sendAlert_MailAnyway(a, db, alertOk) ==
  LET inserted == alertOk /\ Has(db, a.store)
      recipients == getEmailRecipients(a.store)
  IN [store |-> a.store, kind |-> a.kind,
      rows |-> IF inserted
               THEN {[store_id |-> a.store, alert_type |-> dbAlertType(a.kind),
                      severity |-> a.severity]}
               ELSE {},
      mails |-> IF emailEnabled /\ recipients # {}
                THEN {[to |-> recipients, subject |-> a.kind]}
                ELSE {}]

\* One sendAlert call with table stores as `db`: the row it inserts into alerts
\* (the insert fails when alertOk is false or the store has no row, the foreign
\* key) and the mail it queues; a failed insert ends the call.
sendAlert(a, db, alertOk) ==
  LET inserted == alertOk /\ Has(db, a.store)
      recipients == getEmailRecipients(a.store)
  IN [store |-> a.store, kind |-> a.kind,
      rows |-> IF inserted
               THEN {[store_id |-> a.store, alert_type |-> dbAlertType(a.kind),
                      severity |-> a.severity]}
               ELSE {},
      mails |-> IF inserted /\ emailEnabled /\ recipients # {}
                THEN {[to |-> recipients, subject |-> a.kind]}
                ELSE {}]

\* The sendAlert calls `as` of one handler.
Dispatch(as, db, alertOk) ==
  LET done == [i \in 1..Len(as) |-> sendAlert(as[i], db, alertOk)] IN
  /\ dispatched' = done
  /\ alerts' = alerts \cup UNION {done[i].rows : i \in 1..Len(as)}

\* Where the transaction of saveHeartbeatToDatabase can fail: nowhere, at
\* getConnection, at one of its three statements, or at commit.
FailPoints == {"none", "connect", "stores", "history", "stats", "commit"}

\* The row counts of a table without the rollback of the catch.
RowsAfterSave_NoRollback(rows, s, reached, failAt) ==
  IF reached THEN [rows EXCEPT ![s] = @ + 1] ELSE rows

\* The row counts of a table after saveHeartbeatToDatabase: the insert is
\* reached when every statement before it succeeded, and rollback undoes it.
RowsAfterSave(rows, s, reached, failAt) ==
  LET written == IF reached THEN [rows EXCEPT ![s] = @ + 1] ELSE rows
  IN IF failAt = "none" THEN written ELSE rows

\* first_seen: timestamp, whatever the previous record says.
FirstSeenAfterHeartbeat_Reset(s) == MapSet(first_seen, s, now)

\* first_seen: previousState?.first_seen || timestamp
FirstSeenAfterHeartbeat(s) ==
  IF Has(allStores, s) /\ Has(first_seen, s) THEN first_seen
  ELSE MapSet(first_seen, s, now)

\* created_at DEFAULT CURRENT_TIMESTAMP, set when the row is inserted.
CreatedAtAfterSave(s, dbOk) ==
  IF dbOk /\ ~Has(dbStores, s) THEN MapSet(created_at, s, now) ELSE created_at

\* saveHeartbeatToDatabase with its outer catch throwing the error on.
saveHeartbeatThrows_Rethrows(failAt) == failAt # "none"

\* The outer catch of saveHeartbeatToDatabase logs the error: nothing is thrown
\* to processHeartbeat.
saveHeartbeatThrows(failAt) == FALSE

\* res.json({status: "received", ..., ...result}) of the two routes, or the 500
\* of their catch.
HeartbeatResponse(buffered, failAt, reg) ==
  IF saveHeartbeatThrows(failAt)
  THEN [code |-> 500, status |-> "error", buffered |-> FALSE,
        total_stores_monitored |-> 0]
  ELSE [code |-> 200, status |-> "success", buffered |-> buffered,
        total_stores_monitored |-> Cardinality(DOMAIN reg)]

\* The bodies a client can post: with or without store_id, the client's own
\* timestamp the oldest possible or the present one.
Bodies(ids) ==
  [store_id : ids, is_startup : BOOLEAN, timestamp : {0, now}]

\* processHeartbeat(req.body) with everything it writes.
IngestHeartbeat(body, failAt, alertOk) ==
  LET s == body.store_id
      dbOk == failAt = "none"
  IN
  /\ s = Undefined => failAt = "stores"
  /\ dbOk => heartbeat_history[s] < MaxRows
  /\ processHeartbeat(s, body.is_startup, dbOk)
  /\ first_seen' = FirstSeenAfterHeartbeat(s)
  /\ created_at' = CreatedAtAfterSave(s, dbOk)
  /\ heartbeat_history' =
       RowsAfterSave(heartbeat_history, s, failAt \in {"none", "stats", "commit"}, failAt)
  /\ system_stats' =
       RowsAfterSave(system_stats, s, failAt \in {"none", "commit"}, failAt)
  /\ Dispatch(HeartbeatAlerts(s, body.is_startup),
              saveHeartbeatToDatabase(dbStores, s, dbOk), alertOk)
  /\ UNCHANGED <<storeEmailConfig, emailEnabled>>

\* app.post("/heartbeat")
PostHeartbeat(body, failAt, alertOk) ==
  /\ IngestHeartbeat(body, failAt, alertOk)
  /\ request' = [path |-> "/heartbeat", store_id |-> body.store_id,
                 is_startup |-> body.is_startup, timestamp |-> body.timestamp]
  /\ response' = HeartbeatResponse(FALSE, failAt, MapSet(allStores, body.store_id, 0))

\* The buffered route processing every body as is_startup = false.
PostHeartbeatBuffered_NeverStartup(body, failAt, alertOk) ==
  /\ IngestHeartbeat([body EXCEPT !.is_startup = FALSE], failAt, alertOk)
  /\ request' = [path |-> "/heartbeat/buffered", store_id |-> body.store_id,
                 is_startup |-> body.is_startup, timestamp |-> body.timestamp]
  /\ response' = HeartbeatResponse(TRUE, failAt, MapSet(allStores, body.store_id, 0))

\* app.post("/heartbeat/buffered")
PostHeartbeatBuffered(body, failAt, alertOk) ==
  /\ IngestHeartbeat(body, failAt, alertOk)
  /\ request' = [path |-> "/heartbeat/buffered", store_id |-> body.store_id,
                 is_startup |-> body.is_startup, timestamp |-> body.timestamp]
  /\ response' = HeartbeatResponse(TRUE, failAt, MapSet(allStores, body.store_id, 0))

\* first_seen of the registry after syncWithDatabase: a hydrated record takes
\* the row's last_heartbeat, or the sweep's timestamp without one.
FirstSeenAfterSync(hydrated, db) ==
  [s \in (DOMAIN first_seen) \cup hydrated |->
     IF Has(first_seen, s) THEN first_seen[s]
     ELSE IF db[s].last_heartbeat # NoTime THEN db[s].last_heartbeat ELSE now]

\* The cron job with everything it writes.
IngestSweep(updOk, syncOk, alertOk) ==
  /\ performHealthCheck(updOk, syncOk)
  /\ first_seen' = FirstSeenAfterSync(Hydrated(StoresAfterSweep, DbAfterSweep(updOk), syncOk),
                                      DbAfterSweep(updOk))
  /\ Dispatch(SweepAlerts(StoreOrder), DbAfterSweep(updOk), alertOk)
  /\ request' = NoRequest
  /\ response' = NoResponse
  /\ UNCHANGED <<created_at, heartbeat_history, system_stats, storeEmailConfig,
                 emailEnabled>>

\* first_seen: new Date(store.created_at) of loadExistingStoresFromDB
FirstSeenAfterLoad(loadOk) ==
  [s \in DOMAIN loadExistingStoresFromDB(loadOk) |-> created_at[s]]

\* The server process is started again, with the same configuration file and
\* environment.
IngestRestart(loadOk) ==
  /\ Restart(loadOk)
  /\ first_seen' = FirstSeenAfterLoad(loadOk)
  /\ dispatched' = <<>>
  /\ request' = NoRequest
  /\ response' = NoResponse
  /\ UNCHANGED <<created_at, heartbeat_history, system_stats, alerts,
                 storeEmailConfig, emailEnabled>>

\* app.get("/test-email/:storeId"): 400 without recipients, else one sendAlert
\* of kind offline.
TestEmail(s, alertOk) ==
  LET as == IF getEmailRecipients(s) = {} THEN <<>>
            ELSE <<Alert(s, "offline", "This is a test email", "critical")>>
  IN
  /\ Dispatch(as, dbStores, alertOk)
  /\ emitted' = as
  /\ sentAt' = Record(sentAt, as)
  /\ last' = [NoLast EXCEPT !.op = "test-email", !.store = s, !.prevSent = sentAt]
  /\ request' = [NoRequest EXCEPT !.path = "/test-email", !.store_id = s]
  /\ response' = [NoResponse EXCEPT !.code = IF as = <<>> THEN 400 ELSE 200]
  /\ UNCHANGED <<now, allStores, lastOfflineAlerts, lastRecoveryAlerts,
                 lastStartupAlerts, dbStores, dbFailures, first_seen, created_at,
                 heartbeat_history, system_stats, storeEmailConfig, emailEnabled>>

IngestTick ==
  /\ now < IngestStart + MaxIngestTicks
  /\ Tick
  /\ dispatched' = <<>>
  /\ request' = NoRequest
  /\ response' = NoResponse
  /\ UNCHANGED <<first_seen, created_at, heartbeat_history, system_stats, alerts,
                 storeEmailConfig, emailEnabled>>

\* The rows of table stores the earlier process can have left: none, a row
\* without heartbeat, or a row whose status followed its heartbeat or not.
InitialRows ==
  {EmptyMap} \cup
  {[s \in Stores |-> row] :
     row \in {DefaultRow} \cup
             [status : {"online", "offline"}, last_heartbeat : {0}]}

\* The server constructed over those rows with the configuration file and the
\* mail credentials the operator left; loadExistingStoresFromDB has run.
IngestInit(configs, enabled) ==
  /\ now = IngestStart
  /\ dbStores \in InitialRows
  /\ created_at = [s \in DOMAIN dbStores |-> 0]
  /\ \E loadOk \in BOOLEAN :
       /\ allStores = loadExistingStoresFromDB(loadOk)
       /\ first_seen = FirstSeenAfterLoad(loadOk)
  /\ lastOfflineAlerts = EmptyMap
  /\ lastRecoveryAlerts = EmptyMap
  /\ lastStartupAlerts = EmptyMap
  /\ sentAt = [s \in StoreIds |-> NoSent]
  /\ dbFailures = 0
  /\ last = NoLast
  /\ emitted = <<>>
  /\ heartbeat_history =
       [s \in StoreIds |->
          IF Has(dbStores, s) /\ dbStores[s].last_heartbeat # NoTime THEN 1 ELSE 0]
  /\ system_stats = heartbeat_history
  /\ alerts = {}
  /\ dispatched = <<>>
  /\ request = NoRequest
  /\ response = NoResponse
  /\ storeEmailConfig \in configs
  /\ emailEnabled \in enabled
  /\ heartbeats = <<>>
  /\ sweeping = NoSweep
  /\ loading = NoLoad
  /\ alertLog = <<>>
  /\ outbox = <<>>
  /\ mailLog = <<>>
  /\ ClientInit

\* The registry record over time: heartbeats of the store on both routes with
\* old and present client timestamps, sweeps, restarts, the clock.
InitRecord == IngestInit({SampleEmailConfig}, {TRUE})

NextRecord ==
  \/ IngestTick /\ ClientIdle
  \/ \E body \in Bodies(Stores), failAt \in {"none", "stores"} :
       PostHeartbeat(body, failAt, TRUE) /\ ClientIdle
  \/ \E body \in Bodies(Stores), failAt \in {"none", "stores"} :
       PostHeartbeatBuffered(body, failAt, TRUE) /\ ClientIdle
  \/ \E updOk \in BOOLEAN, syncOk \in BOOLEAN : IngestSweep(updOk, syncOk, TRUE) /\ ClientIdle
  \/ \E loadOk \in BOOLEAN : IngestRestart(loadOk) /\ ClientIdle

SpecRecord == InitRecord /\ [][NextRecord]_vars

\* The two routes at one instant: any body, the transaction failing anywhere.
InitIngest == IngestInit({SampleEmailConfig}, {TRUE})

NextIngest ==
  \/ \E body \in Bodies(StoreIds), failAt \in FailPoints :
       PostHeartbeat(body, failAt, TRUE) /\ ClientIdle
  \/ \E body \in Bodies(StoreIds), failAt \in FailPoints :
       PostHeartbeatBuffered(body, failAt, TRUE) /\ ClientIdle
  \/ \E updOk \in BOOLEAN, syncOk \in BOOLEAN : IngestSweep(updOk, syncOk, TRUE) /\ ClientIdle
  \/ \E loadOk \in BOOLEAN : IngestRestart(loadOk) /\ ClientIdle

SpecIngest == InitIngest /\ [][NextIngest]_vars

\* The alert dispatcher at one instant: any configuration, the insert into
\* alerts failing or not.
InitAlerts == IngestInit(EmailConfigs, BOOLEAN)

NextAlerts ==
  \/ \E body \in Bodies(Stores), failAt \in {"none", "stores"}, alertOk \in BOOLEAN :
       PostHeartbeat(body, failAt, alertOk) /\ ClientIdle
  \/ \E updOk \in BOOLEAN, syncOk \in BOOLEAN, alertOk \in BOOLEAN :
       IngestSweep(updOk, syncOk, alertOk) /\ ClientIdle
  \/ \E s \in Stores, alertOk \in BOOLEAN : TestEmail(s, alertOk) /\ ClientIdle

SpecAlerts == InitAlerts /\ [][NextAlerts]_vars

\* ------------------------------------------------------- mail delivery
\* sendAlert hands each mail to setImmediate; the callback awaits
\* transporter.sendMail and logs how it ended.

\* The mails the sendAlert calls `done` of one handler have queued, in order.
Queued(done) ==
  LET idx == SelectSeq([i \in 1..Len(done) |-> i], LAMBDA i : done[i].mails # {})
  IN [k \in 1..Len(idx) |-> CHOOSE m \in done[idx[k]].mails : TRUE]

\* setImmediate(async () => {...}) of the sendAlert calls of the handler that
\* has just run.
QueueMails ==
  /\ Len(mailLog) + Len(outbox) + Len(Queued(dispatched')) <= MaxMails
  /\ outbox' = outbox \o Queued(dispatched')
  /\ mailLog' = mailLog

\* The sequence q without its i-th element.
Without(q, i) == [k \in 1..(Len(q) - 1) |-> IF k < i THEN q[k] ELSE q[k + 1]]

\* The callback with a failed mail queued again.
sendMail_Retries(i, ok) ==
  /\ i \in 1..Len(outbox)
  /\ outbox' = IF ok THEN Without(outbox, i) ELSE Append(Without(outbox, i), outbox[i])
  /\ mailLog' = Append(mailLog, [mail |-> outbox[i], ok |-> ok])
  /\ UNCHANGED <<coreVars, ingestVars>>

\* The callback of the i-th queued mail: await this.transporter.sendMail(
\* mailOptions) resolves (ok) or rejects, and either way the callback logs and
\* ends.
sendMail(i, ok) ==
  /\ i \in 1..Len(outbox)
  /\ outbox' = Without(outbox, i)
  /\ mailLog' = Append(mailLog, [mail |-> outbox[i], ok |-> ok])
  /\ UNCHANGED <<coreVars, ingestVars>>

\* A step of the server with its mails; the client and the calls followed
\* from await to await are left out of it.
MailStep == UNCHANGED <<clientVars, asyncVars>>

\* The server with the sample configuration and mail enabled: heartbeats,
\* sweeps and test mails queue their mails, and the transporter delivers or
\* fails each of them at any later moment.
InitMail == IngestInit({SampleEmailConfig}, {TRUE})

NextMail ==
  \/ \E body \in Bodies(Stores), alertOk \in BOOLEAN :
       PostHeartbeat(body, "none", alertOk) /\ QueueMails /\ MailStep
  \/ \E updOk \in BOOLEAN, syncOk \in BOOLEAN, alertOk \in BOOLEAN :
       IngestSweep(updOk, syncOk, alertOk) /\ QueueMails /\ MailStep
  \/ \E s \in Stores : TestEmail(s, TRUE) /\ QueueMails /\ MailStep
  \/ \E i \in 1..Len(outbox), ok \in BOOLEAN : sendMail(i, ok) /\ MailStep

SpecMail == InitMail /\ [][NextMail]_vars

\* ----------------------------------------------------------- store client
\* class StoreHeartbeatClient: each sendHeartbeat call runs from await to await,
\* and calls started by start(), by the interval timer and by stop() interleave
\* at their awaits. The network and the local database answer as they please.
\* The client's clock counts hours.

\* sendBufferedHeartbeats reads at most BatchLimit rows.
BatchLimit == 10
\* storeHeartbeatLocally trims a memory buffer longer than MemoryBufferLimit to
\* its last MemoryBufferKeep entries.
MemoryBufferLimit == 100
MemoryBufferKeep == 50
\* clearOldBufferedHeartbeats: INTERVAL 24 HOUR for the table, 60 * 60 * 1000 ms
\* for the memory buffer.
RetentionHours == 24
MemoryRetentionHours == 1

\* A call that has not built a payload, and the awaits a call stands at:
\* "stats" in createHeartbeatPayload of the try block, "post" at axios.post,
\* "catch" in createHeartbeatPayload of the catch block, "select" at the read of
\* sendBufferedHeartbeats, "drain" at the axios.post of its loop.
NewCall(pc) == [pc |-> pc, is_startup |-> FALSE, batch |-> <<>>]

\* The first n elements of a sequence.
Take(seq, n) == SubSeq(seq, 1, IF Len(seq) < n THEN Len(seq) ELSE n)

\* The id the next buffered heartbeat gets (AUTO_INCREMENT, Date.now()).
NextBufferId == nextId

\* storeHeartbeatLocally(payload): the table, when the insert succeeds.
TableAfterStore(flag, storeOk) ==
  IF localDb = "connected" /\ storeOk
  THEN Append(heartbeat_buffer, [id |-> NextBufferId, is_startup |-> flag,
                                 sent |-> FALSE, at |-> clientNow])
  ELSE heartbeat_buffer

\* The memory buffer keeps every entry, however long it gets.
MemoryAfterStore_NoTrim(flag) ==
  IF localDb = "connected" THEN heartbeatBuffer
  ELSE Append(heartbeatBuffer, [id |-> NextBufferId, is_startup |-> flag, at |-> clientNow])

\* storeHeartbeatLocally(payload): the memory buffer, used without a connection.
MemoryAfterStore(flag) ==
  IF localDb = "connected" THEN heartbeatBuffer
  ELSE LET pushed == Append(heartbeatBuffer,
                            [id |-> NextBufferId, is_startup |-> flag, at |-> clientNow])
       IN IF Len(pushed) > MemoryBufferLimit
          THEN SubSeq(pushed, Len(pushed) - MemoryBufferKeep + 1, Len(pushed))
          ELSE pushed

\* storeHeartbeatLocally(payload): the id counter after the insert or the push.
IdAfterStore(storeOk) ==
  IF localDb = "connected" /\ ~storeOk THEN nextId ELSE nextId + 1

\* this.isFirstHeartbeat cleared by any answer, 200 or not.
FlagAfterResponse_AnyAnswer(status) == FALSE

\* this.isFirstHeartbeat after the answer to axios.post: cleared by a 200.
FlagAfterResponse(status) ==
  IF status = "200" THEN FALSE ELSE this_isFirstHeartbeat

\* initLocalDatabase(): the connection is made, or the client falls back to
\* memory with this.heartbeatBuffer = [].
initLocalDatabase(ok) ==
  /\ localDb = "pending"
  /\ localDb' = IF ok THEN "connected" ELSE "failed"
  /\ heartbeatBuffer' = IF ok THEN heartbeatBuffer ELSE <<>>
  /\ UNCHANGED <<running, this_isFirstHeartbeat, consecutiveFailures,
                 lastSuccessfulConnection, heartbeat_buffer, calls, nextId>>

\* start(): this.running = true and the first sendHeartbeat() call.
start ==
  /\ ~running /\ calls = <<>>
  /\ running' = TRUE
  /\ calls' = Append(calls, NewCall("stats"))
  /\ UNCHANGED <<this_isFirstHeartbeat, consecutiveFailures, lastSuccessfulConnection,
                 localDb, heartbeat_buffer, heartbeatBuffer, nextId>>

\* The setInterval callback of start(): sendHeartbeat() while running.
IntervalFires ==
  /\ running /\ Len(calls) < MaxCalls
  /\ calls' = Append(calls, NewCall("stats"))
  /\ UNCHANGED <<running, this_isFirstHeartbeat, consecutiveFailures,
                 lastSuccessfulConnection, localDb, heartbeat_buffer, heartbeatBuffer,
                 nextId>>

\* createHeartbeatPayload() in the try block of sendHeartbeat: the payload is
\* built, is_startup read from this.isFirstHeartbeat, and posted.
createHeartbeatPayload(i) ==
  /\ calls[i].pc = "stats"
  /\ calls' = [calls EXCEPT ![i].pc = "post", ![i].is_startup = this_isFirstHeartbeat]
  /\ UNCHANGED <<running, this_isFirstHeartbeat, consecutiveFailures,
                 lastSuccessfulConnection, localDb, heartbeat_buffer, heartbeatBuffer,
                 nextId>>

\* sendHeartbeat: the else branch of response.status === 200 stores the payload
\* it posted; axios hands it the 2xx answers other than 200.
Buffers(status) == status = "2xx"

\* The answer to axios.post(/heartbeat): 200, another 2xx status, or an error
\* (no answer, or a status axios rejects).
sendHeartbeatAnswered(i, status, storeOk) ==
  /\ calls[i].pc = "post"
  /\ this_isFirstHeartbeat' = FlagAfterResponse(status)
  /\ consecutiveFailures' = IF status = "200" THEN 0 ELSE consecutiveFailures + 1
  /\ lastSuccessfulConnection' = IF status = "200" THEN clientNow
                                 ELSE lastSuccessfulConnection
  /\ calls' = [calls EXCEPT ![i].pc = CASE status = "200" -> "select"
                                        [] Buffers(status) -> "done"
                                        [] OTHER -> "catch"]
  /\ heartbeat_buffer' = IF Buffers(status)
                         THEN TableAfterStore(calls[i].is_startup, storeOk)
                         ELSE heartbeat_buffer
  /\ heartbeatBuffer' = IF Buffers(status) THEN MemoryAfterStore(calls[i].is_startup)
                        ELSE heartbeatBuffer
  /\ nextId' = IF Buffers(status) THEN IdAfterStore(storeOk) ELSE nextId
  /\ UNCHANGED <<running, localDb>>

\* The catch block of sendHeartbeat: a new payload is built and stored locally.
sendHeartbeatCaught(i, storeOk) ==
  /\ calls[i].pc = "catch"
  /\ calls' = [calls EXCEPT ![i].pc = "done", ![i].is_startup = this_isFirstHeartbeat]
  /\ heartbeat_buffer' = TableAfterStore(this_isFirstHeartbeat, storeOk)
  /\ heartbeatBuffer' = MemoryAfterStore(this_isFirstHeartbeat)
  /\ nextId' = IdAfterStore(storeOk)
  /\ UNCHANGED <<running, this_isFirstHeartbeat, consecutiveFailures,
                 lastSuccessfulConnection, localDb>>

\* The rows of the table with sent = FALSE, in id order.
Unsent(rows) == SelectSeq(rows, LAMBDA r : ~r.sent)

\* The ids of a sequence of rows, in order.
Ids(buf) == [k \in 1..Len(buf) |-> buf[k].id]

\* The rows sendBufferedHeartbeats reads, with no LIMIT and no slice.
Batch_Unlimited(readOk) ==
  IF localDb = "connected"
  THEN (IF readOk THEN Unsent(heartbeat_buffer) ELSE <<>>)
  ELSE heartbeatBuffer

\* The rows sendBufferedHeartbeats reads: SELECT ... WHERE sent = FALSE ORDER BY
\* id LIMIT 10 (none when the read fails), or heartbeatBuffer.slice(0, 10).
Batch(readOk) ==
  IF localDb = "connected"
  THEN (IF readOk THEN Take(Unsent(heartbeat_buffer), BatchLimit) ELSE <<>>)
  ELSE Take(heartbeatBuffer, BatchLimit)

\* sendBufferedHeartbeats(): the read of the batch; it returns on an empty one.
sendBufferedHeartbeats(i, readOk) ==
  /\ calls[i].pc = "select"
  /\ calls' = [calls EXCEPT ![i].pc = IF Batch(readOk) = <<>> THEN "done" ELSE "drain",
                            ![i].batch = Batch(readOk)]
  /\ UNCHANGED <<running, this_isFirstHeartbeat, consecutiveFailures,
                 lastSuccessfulConnection, localDb, heartbeat_buffer, heartbeatBuffer,
                 nextId>>

\* The memory buffer without its first entry of that id (findIndex, splice).
Spliced(buf, id) ==
  LET found == {k \in 1..Len(buf) : buf[k].id = id} IN
  IF found = {} THEN buf
  ELSE LET index == CHOOSE k \in found : \A j \in found : k <= j
       IN SubSeq(buf, 1, index - 1) \o SubSeq(buf, index + 1, Len(buf))

\* The table after UPDATE heartbeat_buffer SET sent = TRUE WHERE id = ?.
MarkedSent(rows, id) ==
  [k \in 1..Len(rows) |-> IF rows[k].id = id THEN [rows[k] EXCEPT !.sent = TRUE]
                          ELSE rows[k]]

\* The answers of one turn of the loop: "invalid" for a row that is not posted
\* (unparseable data, no store_id), else the answer to the POST: 200, another
\* 2xx status, a network error (ECONNREFUSED, ETIMEDOUT) or another error.
DrainAnswers == {"200", "2xx", "network", "other", "invalid"}

\* The loop goes on to the next row after a network error too.
RestOfBatch_GoesOn(batch, status) == Tail(batch)

\* sendBufferedHeartbeats: the rows left to the loop; break on a network error.
RestOfBatch(batch, status) == IF status = "network" THEN <<>> ELSE Tail(batch)

\* One turn of the loop of sendBufferedHeartbeats, for the batch's next row;
\* the row is marked sent (spliced out of the memory buffer) on a 200, unless
\* the UPDATE fails.
drainRow(i, status, markOk) ==
  LET row == Head(calls[i].batch)
      rest == RestOfBatch(calls[i].batch, status)
  IN
  /\ calls[i].pc = "drain"
  /\ heartbeat_buffer' =
       IF status = "200" /\ localDb = "connected" /\ markOk
       THEN MarkedSent(heartbeat_buffer, row.id) ELSE heartbeat_buffer
  /\ heartbeatBuffer' =
       IF status = "200" /\ localDb # "connected"
       THEN Spliced(heartbeatBuffer, row.id) ELSE heartbeatBuffer
  /\ calls' = [calls EXCEPT ![i].batch = rest,
                            ![i].pc = IF rest = <<>> THEN "done" ELSE "drain"]
  /\ UNCHANGED <<running, this_isFirstHeartbeat, consecutiveFailures,
                 lastSuccessfulConnection, localDb, nextId>>

\* The rows of the table created within the last RetentionHours.
KeptRows(rows) ==
  SelectSeq(rows, LAMBDA r : ~(r.at < clientNow - RetentionHours))

\* new Date(item.timestamp).getTime(): the UTC text storeHeartbeatLocally wrote
\* (toISOString without its Z), read back as local time.
itemTime(item) == item.at - timezoneOffset

\* The entries of the memory buffer with itemTime > oneHourAgo.
KeptEntries(buf) ==
  SelectSeq(buf, LAMBDA item : itemTime(item) > clientNow - MemoryRetentionHours)

\* clearOldBufferedHeartbeats(), run by the cleanup timer while running.
clearOldBufferedHeartbeats(gcOk) ==
  /\ running
  /\ heartbeat_buffer' = IF localDb = "connected" /\ gcOk
                         THEN KeptRows(heartbeat_buffer) ELSE heartbeat_buffer
  /\ heartbeatBuffer' = IF localDb # "connected"
                        THEN KeptEntries(heartbeatBuffer) ELSE heartbeatBuffer
  /\ UNCHANGED <<running, this_isFirstHeartbeat, consecutiveFailures,
                 lastSuccessfulConnection, localDb, calls, nextId>>

\* stop(): this.running = false, the timers cleared, a last sendBufferedHeartbeats().
stop ==
  /\ running /\ Len(calls) < MaxCalls
  /\ running' = FALSE
  /\ calls' = Append(calls, NewCall("select"))
  /\ UNCHANGED <<this_isFirstHeartbeat, consecutiveFailures, lastSuccessfulConnection,
                 localDb, heartbeat_buffer, heartbeatBuffer, nextId>>

\* The calls that have not returned.
InFlight(c) == c.pc # "done"

\* The sendHeartbeat and stop calls that have run to their end return.
Returns ==
  /\ \E i \in 1..Len(calls) : ~InFlight(calls[i])
  /\ calls' = SelectSeq(calls, InFlight)
  /\ UNCHANGED <<running, this_isFirstHeartbeat, consecutiveFailures,
                 lastSuccessfulConnection, localDb, heartbeat_buffer, heartbeatBuffer,
                 nextId>>

\* The rows of a batch, as a set.
Rows(batch) == {batch[k] : k \in 1..Len(batch)}

\* What the history variables keep of a step of the client.
Unobserved == UNCHANGED clientHistory

\* The rest of the state in a step of the client: the server and the clock
\* stand still; and the history variables too.
Still == ClockStands /\ ServerIdle /\ UNCHANGED <<shutdownVars, speedVars>>
Quiet == Unobserved /\ Still

\* A payload was built, for the POST or for the buffer.
ObservePayload(path) ==
  /\ created' = Append(created, [is_startup |-> this_isFirstHeartbeat,
                                 afterSuccess |-> delivered, path |-> path])
  /\ UNCHANGED <<delivered, handed, acked, skipped, abandoned>>

\* The POST /heartbeat of call i was answered.
ObserveAnswer(i, status) ==
  /\ delivered' = (delivered \/ status = "200")
  /\ handed' = IF status = "200"
               THEN Append(handed, [path |-> "/heartbeat", id |-> 0,
                                    is_startup |-> calls[i].is_startup])
               ELSE handed
  /\ UNCHANGED <<created, acked, skipped, abandoned>>

\* The row at the head of call i's batch was posted to /heartbeat/buffered and
\* answered, or skipped without a POST.
ObserveReplay(i, status) ==
  LET row == Head(calls[i].batch) IN
  /\ handed' = IF status = "200"
               THEN Append(handed, [path |-> "/heartbeat/buffered", id |-> row.id,
                                    is_startup |-> row.is_startup])
               ELSE handed
  /\ acked' = IF status = "200" THEN acked \cup {row.id} ELSE acked
  /\ skipped' = IF status \in {"2xx", "other", "invalid"} THEN skipped \cup {row.id}
                ELSE skipped
  /\ abandoned' = IF status = "network"
                  THEN abandoned \cup {r.id : r \in Rows(Tail(calls[i].batch))}
                  ELSE abandoned
  /\ UNCHANGED <<created, delivered>>

NextClient ==
  \/ \E ok \in BOOLEAN : initLocalDatabase(ok) /\ Quiet
  \/ start /\ Quiet
  \/ IntervalFires /\ Quiet
  \/ \E i \in 1..Len(calls) :
       createHeartbeatPayload(i) /\ ObservePayload("/heartbeat") /\ Still
  \/ \E i \in 1..Len(calls), status \in {"200", "2xx", "error"}, storeOk \in BOOLEAN :
       sendHeartbeatAnswered(i, status, storeOk) /\ ObserveAnswer(i, status) /\ Still
  \/ \E i \in 1..Len(calls), storeOk \in BOOLEAN :
       sendHeartbeatCaught(i, storeOk) /\ ObservePayload("buffer") /\ Still
  \/ \E i \in 1..Len(calls), readOk \in BOOLEAN :
       sendBufferedHeartbeats(i, readOk) /\ Quiet
  \/ \E i \in 1..Len(calls), status \in DrainAnswers, markOk \in BOOLEAN :
       drainRow(i, status, markOk) /\ ObserveReplay(i, status) /\ Still
  \/ stop /\ Quiet

SpecClient == Init /\ [][NextClient]_vars

\* ------------------------------------------------- client with a backlog
\* The client over a buffer that already holds more than one batch: the table
\* heartbeat_buffer outlives the process, so a new process finds the rows of
\* the earlier ones; the memory buffer is filled by the failed sends of this
\* process alone.

\* The table a process finds: k rows of earlier boots, those in sentIds sent.
BacklogRows(k, sentIds) ==
  [j \in 1..k |-> [id |-> j, is_startup |-> (j = 1), sent |-> (j \in sentIds), at |-> 0]]

\* The memory buffer after the first k sends of a process have all failed.
BacklogEntries(k) ==
  [j \in 1..k |-> [id |-> j, is_startup |-> TRUE, at |-> 0]]

\* A new process over a table of earlier boots.
InitDurable(k, sentIds) ==
  /\ running = FALSE
  /\ this_isFirstHeartbeat = TRUE
  /\ consecutiveFailures = 0
  /\ heartbeat_buffer = BacklogRows(k, sentIds)
  /\ heartbeatBuffer = <<>>
  /\ nextId = k + 1

\* A process without a local database whose first k sends have all failed.
InitMemory(k) ==
  /\ running = TRUE
  /\ this_isFirstHeartbeat = TRUE
  /\ consecutiveFailures = k
  /\ localDb = "failed"
  /\ heartbeat_buffer = <<>>
  /\ heartbeatBuffer = BacklogEntries(k)
  /\ nextId = k + 1

\* The server as it is constructed, no call of the client in flight, and the
\* history variables empty.
BacklogRest ==
  /\ ServerInit
  /\ storeEmailConfig = SampleEmailConfig
  /\ emailEnabled = TRUE
  /\ calls = <<>>
  /\ lastSuccessfulConnection = NoTime
  /\ clientNow = 0
  /\ created = <<>>
  /\ delivered = FALSE
  /\ handed = <<>>
  /\ acked = {}
  /\ skipped = {}
  /\ abandoned = {}
  /\ closed = FALSE
  /\ stopAt = 0
  /\ onClosed = {}
  /\ lastNetworkSpeed = NoSpeed
  /\ networkSpeedHistory = <<>>
  /\ payloads = 0
  /\ lastBuildMeasured = FALSE

InitBacklog ==
  /\ BacklogRest
  /\ timezoneOffset = 0
  /\ refused = {}
  /\ \/ \E sentIds \in {{}, {2, 5}} :
          InitDurable(BatchLimit + 2, sentIds) /\ localDb = "pending"
     \/ \E k \in {BatchLimit + 1, MemoryBufferLimit} : InitMemory(k)

\* No sendHeartbeat or stop call is in flight.
Idle == \A i \in 1..Len(calls) : ~InFlight(calls[i])

\* The timer fires after the sendHeartbeat call before it has returned (the
\* interval is longer than a call takes); stop() comes at any moment.
NextBacklog ==
  \/ \E ok \in BOOLEAN : initLocalDatabase(ok) /\ Quiet
  \/ start /\ Quiet
  \/ Idle /\ IntervalFires /\ Quiet
  \/ \E i \in 1..Len(calls) : createHeartbeatPayload(i) /\ Quiet
  \/ \E i \in 1..Len(calls), status \in {"200", "error"} :
       sendHeartbeatAnswered(i, status, TRUE) /\ ObserveAnswer(i, status) /\ Still
  \/ \E i \in 1..Len(calls) : sendHeartbeatCaught(i, TRUE) /\ Quiet
  \/ \E i \in 1..Len(calls), readOk \in BOOLEAN :
       sendBufferedHeartbeats(i, readOk) /\ Quiet
  \/ \E i \in 1..Len(calls), status \in {"200", "network"} :
       drainRow(i, status, TRUE) /\ Quiet
  \/ stop /\ Quiet

SpecBacklog == InitBacklog /\ [][NextBacklog]_vars

\* ---------------------------------------------------- client that replays
\* The client with the server reachable: every live send is answered 200 and
\* starts a drain, and /heartbeat/buffered answers each buffered heartbeat the
\* same way each time, with an error for those in `refused` and with 200 for
\* the others. The heartbeat interval is one hour of the client's clock, the
\* cleanup timer fires within it, the local database is connected or has
\* failed before the first call, and the process is not stopped.

\* The time zones the process may run in, in hours ahead of UTC.
TimezoneOffsets == {-5, 0, 6}

\* The interval timer fires: one interval after the call before it.
IntervalPasses ==
  /\ clientNow' = IF clientNow < MaxHours THEN clientNow + 1 ELSE clientNow
  /\ UNCHANGED <<timezoneOffset, refused>>

\* The answer of /heartbeat/buffered to the row at the head of call i's batch.
ReplayAnswer(i) ==
  IF Head(calls[i].batch).id \in refused THEN "other" ELSE "200"

\* The outcome of a replay alone; the heartbeats handed over are not kept.
ObserveOutcome(i, status) ==
  LET row == Head(calls[i].batch) IN
  /\ acked' = IF status = "200" THEN acked \cup {row.id} ELSE acked
  /\ skipped' = IF status \in {"2xx", "other", "invalid"} THEN skipped \cup {row.id}
                ELSE skipped
  /\ UNCHANGED <<created, delivered, handed, abandoned>>

InitReplay ==
  /\ BacklogRest
  /\ timezoneOffset \in TimezoneOffsets
  /\ refused \in {{}, 1..BatchLimit}
  /\ \/ InitDurable(BatchLimit + 1, {}) /\ localDb = "connected"
     \/ InitMemory(BatchLimit + 1)

ReplayStarts == start /\ Quiet
ReplayTimer ==
  /\ Idle /\ IntervalFires /\ IntervalPasses
  /\ Unobserved /\ ServerIdle /\ UNCHANGED <<shutdownVars, speedVars>>
ReplayBuilds == \E i \in 1..Len(calls) : createHeartbeatPayload(i) /\ Quiet
ReplayDelivers == \E i \in 1..Len(calls) : sendHeartbeatAnswered(i, "200", TRUE) /\ Quiet
ReplayReads == \E i \in 1..Len(calls) : sendBufferedHeartbeats(i, TRUE) /\ Quiet
ReplayPosts ==
  \E i \in 1..Len(calls) :
    drainRow(i, ReplayAnswer(i), TRUE) /\ ObserveOutcome(i, ReplayAnswer(i)) /\ Still
ReplayCleans == clearOldBufferedHeartbeats(TRUE) /\ Quiet
ReplayReturns == Returns /\ Quiet

NextReplay ==
  \/ ReplayStarts
  \/ ReplayTimer
  \/ ReplayBuilds
  \/ ReplayDelivers
  \/ ReplayReads
  \/ ReplayPosts
  \/ ReplayCleans
  \/ ReplayReturns

\* The timers fire while the process runs, and
\* every await of a call ends: each HTTP call has a timeout.
ReplayFairness ==
  /\ WF_vars(ReplayStarts)
  /\ WF_vars(ReplayTimer)
  /\ WF_vars(ReplayBuilds)
  /\ WF_vars(ReplayDelivers)
  /\ WF_vars(ReplayReads)
  /\ WF_vars(ReplayPosts)
  /\ WF_vars(ReplayCleans)
  /\ WF_vars(ReplayReturns)

SpecReplay == InitReplay /\ [][NextReplay]_vars /\ ReplayFairness

\* ------------------------------------------------ client that shuts down
\* stop() while sendHeartbeat calls of the timer are still at their awaits.
\* this.localDb stays set after its end(), so the calls go on taking the
\* branches of the table, and every statement on the closed connection fails.

\* A statement on this.localDb ends as `ok` says; after end() it fails.
Executes(ok) == closed /\ localDb = "connected" => ~ok

\* The statements a step has executed on the closed connection.
Executed(statements) ==
  /\ onClosed' = IF closed /\ localDb = "connected"
                 THEN onClosed \cup statements ELSE onClosed
  /\ UNCHANGED <<closed, stopAt>>

\* stop() after `await this.sendBufferedHeartbeats()`: with a connection,
\* `await this.localDb.end()`.
stopReturns ==
  /\ stopAt # 0 /\ calls[stopAt].pc = "done"
  /\ localDb = "connected" /\ ~closed
  /\ closed' = TRUE
  /\ UNCHANGED <<stopAt, onClosed, clientState>>

\* The rest of the state in a step of the client followed to its shutdown.
Apart == ClockStands /\ ServerIdle /\ Unobserved /\ UNCHANGED speedVars

InitShutdown ==
  /\ BacklogRest
  /\ timezoneOffset = 0
  /\ refused = {}
  /\ \/ InitDurable(2, {}) /\ localDb = "connected"
     \/ InitMemory(2)

NextShutdown ==
  \/ start /\ Executed({}) /\ Apart
  \/ IntervalFires /\ Executed({}) /\ Apart
  \/ \E i \in 1..Len(calls) : createHeartbeatPayload(i) /\ Executed({}) /\ Apart
  \/ \E i \in 1..Len(calls), status \in {"200", "error"} :
       sendHeartbeatAnswered(i, status, TRUE) /\ Executed({}) /\ Apart
  \/ \E i \in 1..Len(calls), storeOk \in BOOLEAN :
       Executes(storeOk) /\ sendHeartbeatCaught(i, storeOk)
         /\ Executed({"insert"}) /\ Apart
  \/ \E i \in 1..Len(calls), readOk \in BOOLEAN :
       Executes(readOk) /\ sendBufferedHeartbeats(i, readOk)
         /\ Executed({"select"}) /\ Apart
  \/ \E i \in 1..Len(calls), status \in {"200", "network"}, markOk \in BOOLEAN :
       Executes(markOk) /\ drainRow(i, status, markOk)
         /\ Executed(IF status = "200" THEN {"update"} ELSE {}) /\ Apart
  \/ stop /\ stopAt' = Len(calls) + 1 /\ UNCHANGED <<closed, onClosed>> /\ Apart
  \/ stopReturns /\ Apart

SpecShutdown == InitShutdown /\ [][NextShutdown]_vars

\* ------------------------------------------- client that measures speed
\* getSystemStats, called by createHeartbeatPayload, and the 30 minute timer
\* of start() call measureNetworkSpeed; the speed is the average of the
\* downloads that succeeded, rounded to two decimals, so 0 for a slow line.

\* The speeds a measurement can give, in Mbps.
Speeds == {0, 5}
\* Retained samples.
SpeedHistoryLimit == 5

\* measureNetworkSpeed(): with no download succeeding (outcome NoSpeed) it
\* returns null and keeps the cache; else it writes the cache and pushes the
\* sample, dropping the oldest one beyond SpeedHistoryLimit.
measureNetworkSpeed(outcome) ==
  /\ lastNetworkSpeed' = IF outcome = NoSpeed THEN lastNetworkSpeed ELSE outcome
  /\ networkSpeedHistory' =
       IF outcome = NoSpeed THEN networkSpeedHistory
       ELSE LET pushed == Append(networkSpeedHistory, outcome)
            IN IF Len(pushed) > SpeedHistoryLimit THEN Tail(pushed) ELSE pushed

\* getSystemStats: if (!networkSpeed || this.isFirstHeartbeat); null and 0 are
\* both falsy.
Measures == lastNetworkSpeed \in {NoSpeed, 0} \/ this_isFirstHeartbeat

\* getSystemStats() of a payload being built.
getSystemStats(outcome) ==
  /\ IF Measures THEN measureNetworkSpeed(outcome)
     ELSE outcome = NoSpeed /\ UNCHANGED <<lastNetworkSpeed, networkSpeedHistory>>
  /\ payloads' = payloads + 1
  /\ lastBuildMeasured' = Measures

\* The third setInterval callback of start(): measureNetworkSpeed() while
\* running.
SpeedTimerFires(outcome) ==
  /\ running
  /\ measureNetworkSpeed(outcome)
  /\ UNCHANGED <<payloads, lastBuildMeasured, clientState>>

\* The rest of the state in a step of the client whose measurements are
\* followed.
Aside == ClockStands /\ ServerIdle /\ Unobserved /\ UNCHANGED shutdownVars
Unmeasured == UNCHANGED speedVars

\* The client from its construction, the local database connected, the server
\* answering 200 or not at all, each sendHeartbeat call ending before the
\* timer fires again.
InitSpeed == Init

NextSpeed ==
  \/ initLocalDatabase(TRUE) /\ Unmeasured /\ Aside
  \/ start /\ Unmeasured /\ Aside
  \/ Idle /\ IntervalFires /\ Unmeasured /\ Aside
  \/ \E i \in 1..Len(calls), outcome \in Speeds \cup {NoSpeed} :
       createHeartbeatPayload(i) /\ getSystemStats(outcome) /\ Aside
  \/ \E i \in 1..Len(calls), status \in {"200", "error"} :
       sendHeartbeatAnswered(i, status, TRUE) /\ Unmeasured /\ Aside
  \/ \E i \in 1..Len(calls), outcome \in Speeds \cup {NoSpeed} :
       sendHeartbeatCaught(i, TRUE) /\ getSystemStats(outcome) /\ Aside
  \/ \E i \in 1..Len(calls) : sendBufferedHeartbeats(i, TRUE) /\ Unmeasured /\ Aside
  \/ \E i \in 1..Len(calls) : drainRow(i, "200", TRUE) /\ Unmeasured /\ Aside
  \/ \E outcome \in Speeds \cup {NoSpeed} : SpeedTimerFires(outcome) /\ Aside

SpecSpeed == InitSpeed /\ [][NextSpeed]_vars

\* ------------------------------------------- heartbeats that overlap
\* processHeartbeat is an async function: it runs to its first await, and the
\* event loop runs other handlers until the awaited promise is settled. The
\* calls are followed here from await to await, for heartbeats of one store
\* that arrive while earlier ones are still being processed.

\* The locals of a processHeartbeat call that has reached
\* `await this.saveHeartbeatToDatabase(...)`.
NewHeartbeat(s, isStartup) ==
  [store |-> s, is_startup |-> isStartup, timestamp |-> now,
   isFirstHeartbeat |-> isFirstHeartbeat(s), wasOffline |-> wasOffline(s),
   pc |-> "save", alert |-> "none", alertAt |-> NoTime]

\* processHeartbeat(heartbeatData) up to its first await: previousState is
\* read and this.allStores.set(storeId, storeState) is done.
processHeartbeatCalled(s, isStartup) ==
  /\ Len(heartbeats) < MaxHeartbeats
  /\ allStores' = MapSet(allStores, s, storeState(s))
  /\ heartbeats' = Append(heartbeats, NewHeartbeat(s, isStartup))
  /\ UNCHANGED <<now, lastOfflineAlerts, lastRecoveryAlerts, lastStartupAlerts,
                 dbStores, sentAt, dbFailures, last, emitted>>

\* The branch taken after the save: the kind of the sendAlert call the
\* heartbeat h makes, "none" when it makes none. The cooldown Maps are read
\* at this moment and compared with the call's own timestamp.
AlertAfterSave(h) ==
  IF h.isFirstHeartbeat THEN "startup"
  ELSE IF h.is_startup THEN
    IF \/ ~Has(lastStartupAlerts, h.store)
       \/ h.timestamp - lastStartupAlerts[h.store] > Minutes(StartupCooldownMinutes)
    THEN "startup" ELSE "none"
  ELSE IF h.wasOffline THEN
    IF \/ ~Has(lastRecoveryAlerts, h.store)
       \/ h.timestamp - lastRecoveryAlerts[h.store] > Minutes(RecoveryCooldownMinutes)
    THEN "recovery" ELSE "none"
  ELSE "none"

\* `await this.saveHeartbeatToDatabase(...)` is settled: call i goes on to the
\* alert branches and either returns or stands at `await this.sendAlert(...)`.
saveHeartbeatSettled(i, dbOk) ==
  LET h == heartbeats[i]
      kind == AlertAfterSave(h) IN
  /\ h.pc = "save"
  /\ DbBudget(dbOk)
  /\ dbStores' = IF dbOk
                 THEN MapSet(dbStores, h.store,
                             [status |-> "online", last_heartbeat |-> h.timestamp])
                 ELSE dbStores
  /\ heartbeats' = [heartbeats EXCEPT
                      ![i].pc = IF kind = "none" THEN "done" ELSE "alert",
                      ![i].alert = kind,
                      ![i].alertAt = IF kind = "none" THEN NoTime ELSE now]
  /\ UNCHANGED <<now, allStores, lastOfflineAlerts, lastRecoveryAlerts,
                 lastStartupAlerts, sentAt, last, emitted>>

\* `await this.sendAlert(...)` is settled: call i writes the cooldown Map of
\* its alert's kind with its timestamp and returns.
sendAlertSettled(i) ==
  LET h == heartbeats[i] IN
  /\ h.pc = "alert"
  /\ lastStartupAlerts' = IF h.alert = "startup"
                          THEN MapSet(lastStartupAlerts, h.store, h.timestamp)
                          ELSE lastStartupAlerts
  /\ lastRecoveryAlerts' = IF h.alert = "recovery"
                           THEN MapSet(lastRecoveryAlerts, h.store, h.timestamp)
                           ELSE lastRecoveryAlerts
  /\ heartbeats' = [heartbeats EXCEPT ![i].pc = "done"]
  /\ UNCHANGED <<now, allStores, lastOfflineAlerts, dbStores, sentAt, dbFailures,
                 last, emitted>>

\* A step of a processHeartbeat call; the tables of the ingestion path and
\* the client are left out of it.
CallStep == UNCHANGED <<ingestVars, clientVars, mailVars, overlapVars>>

\* No processHeartbeat call stands at an await.
Settled == \A i \in 1..Len(heartbeats) : heartbeats[i].pc = "done"

\* Heartbeats of the store with and without is_startup, any number of them
\* arriving before the earlier ones are through; every save succeeds, and the
\* awaits of a call are settled within one unit of the clock (half a minute).
NextConcurrent ==
  \/ Settled /\ Tick /\ ServerCore
  \/ \E s \in Stores, isStartup \in BOOLEAN :
       processHeartbeatCalled(s, isStartup) /\ CallStep
  \/ \E i \in 1..Len(heartbeats) : saveHeartbeatSettled(i, TRUE) /\ CallStep
  \/ \E i \in 1..Len(heartbeats) : sendAlertSettled(i) /\ CallStep

SpecConcurrent == Init /\ [][NextConcurrent]_vars

\* ------------------------------- sweep, start-up load and heartbeats overlap
\* performHealthCheck and loadExistingStoresFromDB are async functions too:
\* the sweep stands at `await this.updateStoreStatusInDB(...)` and at
\* `await this.sendAlert(...)` with store.status already written, and the
\* constructor calls loadExistingStoresFromDB() without awaiting it, so the
\* server takes heartbeats while the SELECT of the load is on its way.

\* Table alerts after the INSERT of a sendAlert call of that kind.
Logged(kind) ==
  IF Len(alertLog) < MaxAlerts THEN Append(alertLog, kind) ELSE alertLog

\* performHealthCheck() up to its first await, for the store of the registry:
\* a store found offline for the first time gets store.status = "offline" and
\* the call stands at the UPDATE; one found offline again passes
\* canSendOfflineAlert, which writes lastOfflineAlerts, and the call stands at
\* sendAlert; otherwise the call goes on to syncWithDatabase, which tests
\* allStores.has after its own await and is taken at once.
performHealthCheckCalled(s) ==
  /\ sweeping.pc = "done"
  /\ CronDue
  /\ allStores' = IF GoesOffline(s) THEN [allStores EXCEPT ![s].status = "offline"]
                  ELSE IF RepeatOffline(s) THEN allStores
                  ELSE syncWithDatabase(allStores, dbStores, TRUE)
  /\ lastOfflineAlerts' = IF RepeatOffline(s) THEN MapSet(lastOfflineAlerts, s, now)
                          ELSE lastOfflineAlerts
  /\ sweeping' = IF GoesOffline(s) THEN [pc |-> "update", store |-> s]
                 ELSE IF RepeatOffline(s) THEN [pc |-> "alert", store |-> s]
                 ELSE NoSweep
  /\ UNCHANGED <<now, lastRecoveryAlerts, lastStartupAlerts, dbStores, sentAt,
                 dbFailures, last, emitted, heartbeats, loading, alertLog>>

\* `await this.updateStoreStatusInDB(storeId, "offline", timestamp)` is
\* settled: the row's status is written and the call stands at sendAlert.
updateStoreStatusSettled ==
  /\ sweeping.pc = "update"
  /\ dbStores' = updateStoreStatusInDB(dbStores, sweeping.store, TRUE)
  /\ sweeping' = [sweeping EXCEPT !.pc = "alert"]
  /\ UNCHANGED <<now, allStores, lastOfflineAlerts, lastRecoveryAlerts,
                 lastStartupAlerts, sentAt, dbFailures, last, emitted, heartbeats,
                 loading, alertLog>>

\* `await this.sendAlert(storeId, "offline", ...)` of the sweep is settled,
\* its row written to table alerts; syncWithDatabase ends the sweep.
offlineAlertSettled ==
  /\ sweeping.pc = "alert"
  /\ alertLog' = Logged("offline")
  /\ allStores' = syncWithDatabase(allStores, dbStores, TRUE)
  /\ sweeping' = NoSweep
  /\ UNCHANGED <<now, lastOfflineAlerts, lastRecoveryAlerts, lastStartupAlerts,
                 dbStores, sentAt, dbFailures, last, emitted, heartbeats, loading>>

\* The server process is started again: constructor() has made the Maps and
\* called loadExistingStoresFromDB(), which stands at its SELECT.
constructorReturns ==
  /\ sweeping.pc = "done" /\ loading.pc = "done"
  /\ \A i \in 1..Len(heartbeats) : heartbeats[i].pc = "done"
  /\ allStores' = EmptyMap
  /\ lastOfflineAlerts' = EmptyMap
  /\ lastRecoveryAlerts' = EmptyMap
  /\ lastStartupAlerts' = EmptyMap
  /\ sentAt' = [s \in StoreIds |-> NoSent]
  /\ heartbeats' = <<>>
  /\ loading' = [pc |-> "select", rows |-> EmptyMap]
  /\ UNCHANGED <<now, dbStores, dbFailures, last, emitted, sweeping, alertLog>>

\* The database executes `SELECT ... FROM stores` of the load, or fails it
\* (the catch logs and the registry stays as it is).
loadSelects(loadOk) ==
  /\ loading.pc = "select"
  /\ DbBudget(loadOk)
  /\ loading' = IF loadOk THEN [pc |-> "rows", rows |-> dbStores] ELSE NoLoad
  /\ UNCHANGED <<now, allStores, lastOfflineAlerts, lastRecoveryAlerts,
                 lastStartupAlerts, dbStores, sentAt, last, emitted, heartbeats,
                 sweeping, alertLog>>

\* The registry after `this.allStores.set(store.store_id, {...})` for every
\* row read.
StoresAfterLoad(reg, rows) ==
  [s \in (DOMAIN reg) \cup (DOMAIN rows) |->
     IF Has(rows, s) THEN LoadedRecord(rows[s]) ELSE reg[s]]

\* The await of the SELECT is settled and the loop over the rows runs.
loadExistingStoresSettled ==
  /\ loading.pc = "rows"
  /\ allStores' = StoresAfterLoad(allStores, loading.rows)
  /\ loading' = NoLoad
  /\ UNCHANGED <<now, lastOfflineAlerts, lastRecoveryAlerts, lastStartupAlerts,
                 dbStores, sentAt, dbFailures, last, emitted, heartbeats, sweeping,
                 alertLog>>

\* A step of the server's calls; the tables of the ingestion path and the
\* client are left out of it.
OverlapStep == UNCHANGED <<ingestVars, clientVars, mailVars>>

\* No call of the server stands at an await.
Quiescent == Settled /\ sweeping.pc = "done" /\ loading.pc = "done"

\* The constructor has returned over the rows an earlier process left, at a
\* cron instant more than the threshold after that process's last heartbeat;
\* table alerts holds the offline alert of a row left offline.
InitOverlap ==
  /\ now = IngestStart
  /\ dbStores \in InitialRows
  /\ created_at = [s \in DOMAIN dbStores |-> 0]
  /\ allStores = EmptyMap
  /\ first_seen = EmptyMap
  /\ lastOfflineAlerts = EmptyMap
  /\ lastRecoveryAlerts = EmptyMap
  /\ lastStartupAlerts = EmptyMap
  /\ sentAt = [s \in StoreIds |-> NoSent]
  /\ dbFailures = 0
  /\ last = NoLast
  /\ emitted = <<>>
  /\ heartbeat_history = [s \in StoreIds |-> 0]
  /\ system_stats = [s \in StoreIds |-> 0]
  /\ alerts = {}
  /\ dispatched = <<>>
  /\ request = NoRequest
  /\ response = NoResponse
  /\ storeEmailConfig = SampleEmailConfig
  /\ emailEnabled = TRUE
  /\ heartbeats = <<>>
  /\ sweeping = NoSweep
  /\ loading = [pc |-> "select", rows |-> EmptyMap]
  /\ alertLog = IF \E s \in DOMAIN dbStores : dbStores[s].status = "offline"
                THEN <<"offline">> ELSE <<>>
  /\ outbox = <<>>
  /\ mailLog = <<>>
  /\ ClientInit

\* Heartbeats without is_startup, sweeps at the cron's instants and restarts
\* in any order, for MaxIngestTicks half minutes; every database call but the
\* load's SELECT succeeds, the awaits are settled within one unit of the
\* clock, and the heartbeat calls of an instant are kept until the clock
\* moves on.
NextOverlap ==
  \/ /\ Quiescent /\ now < IngestStart + MaxIngestTicks /\ Tick /\ heartbeats' = <<>>
     /\ UNCHANGED overlapVars /\ OverlapStep
  \/ \E s \in Stores :
       /\ Len(heartbeats) < MaxTogether
       /\ processHeartbeatCalled(s, FALSE)
       /\ UNCHANGED overlapVars /\ OverlapStep
  \/ \E i \in 1..Len(heartbeats) :
       /\ saveHeartbeatSettled(i, TRUE)
       /\ UNCHANGED overlapVars /\ OverlapStep
  \/ \E i \in 1..Len(heartbeats) :
       /\ sendAlertSettled(i) /\ alertLog' = Logged(heartbeats[i].alert)
       /\ UNCHANGED <<sweeping, loading>> /\ OverlapStep
  \/ \E s \in Stores : performHealthCheckCalled(s) /\ OverlapStep
  \/ updateStoreStatusSettled /\ OverlapStep
  \/ offlineAlertSettled /\ OverlapStep
  \/ constructorReturns /\ OverlapStep
  \/ \E loadOk \in BOOLEAN : loadSelects(loadOk) /\ OverlapStep
  \/ loadExistingStoresSettled /\ OverlapStep

SpecOverlap == InitOverlap /\ [][NextOverlap]_vars

\* ------------------------------------------------------------- properties
\* The steps of the handlers, as action formulas.
HeartbeatStep(s, isStartup) == \E dbOk \in BOOLEAN : processHeartbeat(s, isStartup, dbOk)
SweepStep == \E updOk \in BOOLEAN, syncOk \in BOOLEAN : performHealthCheck(updOk, syncOk)

\* The alerts of kind `kind` for store s among the sendAlert calls `as`.
AlertsOf(as, s, kind) ==
  {i \in 1..Len(as) : as[i].store = s /\ as[i].kind = kind}

TPlusEpsilon == Minutes(alertThresholdMinutes) + Epsilon

\* C1: offline alerts of one store respect the offline cooldown: the sweep that
\* moves a store to offline records cooldown[offline] for it, and a sweep that
\* finds the store already offline sends a repeat offline alert only if at
\* least the offline cooldown has passed since the store's previous offline
\* alert (so the sweep 2 min after the first offline alert sends none).
C1_OfflineCooldown ==
  last.op = "sweep" =>
    \A s \in Stores :
      \A i \in AlertsOf(emitted, s, "offline") :
        /\ emitted[i].message = "has gone offline" =>
             Has(lastOfflineAlerts, s) /\ lastOfflineAlerts[s] = now
        /\ last.prevSent[s].offline # NoTime =>
             now - last.prevSent[s].offline >= Minutes(offlineAlertCooldownMinutes)

\* C2: a sweep moves a store to offline, or sends an offline alert for it, only
\* when now - last_heartbeat > T + epsilon; a store whose last heartbeat is at
\* most T + epsilon old keeps its status and gets no offline alert.
C2_OfflineOnlyPastBuffer ==
  [][SweepStep =>
      \A s \in DOMAIN allStores :
        (\/ allStores'[s].status # allStores[s].status
         \/ AlertsOf(emitted', s, "offline") # {})
        => /\ allStores[s].last_heartbeat # NoTime
           /\ now - allStores[s].last_heartbeat > TPlusEpsilon]_vars

\* C3 as the specification states it: at every instant, a store whose registry
\* status is online has now - last_heartbeat <= T + epsilon.
C3_OnlineIsFresh_Original ==
  \A s \in DOMAIN allStores :
    allStores[s].status = "online" /\ allStores[s].last_heartbeat # NoTime
    => now - allStores[s].last_heartbeat <= TPlusEpsilon

\* C3, amended: right after a sweep, every store the sweep examined (a store of
\* the registry when the sweep started) whose status is online has
\* now - last_heartbeat <= T + epsilon.
C3_OnlineIsFreshAfterSweep ==
  last.op = "sweep" =>
    \A s \in (DOMAIN allStores) \ last.hydrated :
      allStores[s].status = "online" /\ allStores[s].last_heartbeat # NoTime
      => now - allStores[s].last_heartbeat <= TPlusEpsilon

\* C3 witness: a sweep has just left online a store whose last heartbeat is
\* exactly T old.
C3_Witness ==
  /\ last.op = "sweep"
  /\ \E s \in (DOMAIN allStores) \ last.hydrated :
       /\ allStores[s].status = "online"
       /\ now - allStores[s].last_heartbeat = Minutes(alertThresholdMinutes)

\* C4: a store that enters the registry by hydration (the load at server start
\* or the sweeper's sync) has status unknown whatever its row holds, and the
\* hydration sends no alert for it.
C4_HydratedIsUnknown ==
  \A s \in last.hydrated :
    /\ allStores[s].status = "unknown"
    /\ \A k \in Kinds : AlertsOf(emitted, s, k) = {}
\* The cooldowns as the alerts sent so far decide them: no earlier alert of the
\* kind for the store in this process, or one more than the cooldown ago.
StartupCooldownAllows(s) ==
  \/ sentAt[s].startup = NoTime
  \/ now - sentAt[s].startup > Minutes(StartupCooldownMinutes)
RecoveryCooldownAllows(s) ==
  \/ sentAt[s].recovery = NoTime
  \/ now - sentAt[s].recovery > Minutes(RecoveryCooldownMinutes)

\* `as` is exactly one alert of this kind and severity for store s.
OneAlert(as, s, kind, severity) ==
  /\ Len(as) = 1
  /\ as[1].store = s /\ as[1].kind = kind /\ as[1].severity = severity

\* C5: the first heartbeat (is_startup = false) of a store hydrated from
\* persistence sends no recovery alert, and sends a startup alert if and only
\* if the startup cooldown allows.
C5_HydratedFirstHeartbeat ==
  [][\A s \in Stores :
       HeartbeatStep(s, FALSE) /\ Has(allStores, s) /\ allStores[s].data = "null"
       => /\ AlertsOf(emitted', s, "recovery") = {}
          /\ AlertsOf(emitted', s, "startup") # {} <=> StartupCooldownAllows(s)]_vars

\* C6: the first heartbeat for a store id that is not in the registry creates
\* its record with status online and sends exactly one alert, a startup alert of
\* severity low, whatever is_startup is.
C6_FirstHeartbeat ==
  [][\A s \in Stores, isStartup \in BOOLEAN :
       HeartbeatStep(s, isStartup) /\ ~Has(allStores, s)
       => /\ Has(allStores', s) /\ allStores'[s].status = "online"
          /\ OneAlert(emitted', s, "startup", "low")]_vars

\* C6 witness: a heartbeat with is_startup = false for an unknown id has been
\* processed and its startup alert sent.
C6_Witness ==
  /\ last.op = "heartbeat" /\ last.previous = "NEW" /\ ~last.isStartup
  /\ Has(allStores, last.store)
  /\ OneAlert(emitted, last.store, "startup", "low")

\* C7: a heartbeat with is_startup = false for a store whose status is online
\* leaves the status online, sets last_heartbeat to the receipt instant, sends
\* no alert and leaves the three cooldown tables unchanged.
C7_SteadyHeartbeat ==
  [][\A s \in Stores :
       HeartbeatStep(s, FALSE) /\ Has(allStores, s) /\ allStores[s].status = "online"
       => /\ allStores'[s].status = "online"
          /\ allStores'[s].last_heartbeat = now
          /\ emitted' = <<>>
          /\ UNCHANGED <<lastOfflineAlerts, lastRecoveryAlerts, lastStartupAlerts>>]_vars

\* C7 witness: such a heartbeat has been processed for a store that had a
\* startup cooldown entry and an older last heartbeat.
C7_Witness ==
  /\ last.op = "heartbeat" /\ last.previous = "online" /\ ~last.isStartup
  /\ Has(lastStartupAlerts, last.store)
  /\ lastStartupAlerts[last.store] < now
  /\ allStores[last.store].last_heartbeat = now

\* C8: a heartbeat with is_startup = false for a store whose status is offline
\* sets the status to online and sends a recovery alert (severity medium) if and
\* only if the recovery cooldown allows; when it is sent the store's recovery
\* cooldown entry is the receipt instant.
C8_Recovery ==
  [][\A s \in Stores :
       HeartbeatStep(s, FALSE) /\ Has(allStores, s) /\ allStores[s].status = "offline"
       => /\ allStores'[s].status = "online"
          /\ IF RecoveryCooldownAllows(s)
             THEN /\ OneAlert(emitted', s, "recovery", "medium")
                  /\ Has(lastRecoveryAlerts', s) /\ lastRecoveryAlerts'[s] = now
             ELSE /\ emitted' = <<>>
                  /\ lastRecoveryAlerts' = lastRecoveryAlerts]_vars

\* C8 witness: a heartbeat has brought an offline store back and its recovery
\* alert has been sent.
C8_Witness ==
  /\ last.op = "heartbeat" /\ last.previous = "offline" /\ ~last.isStartup
  /\ allStores[last.store].status = "online"
  /\ OneAlert(emitted, last.store, "recovery", "medium")

\* C9: a heartbeat with is_startup = true never sends a recovery alert nor
\* writes the recovery cooldown entry; for a store already in the registry it
\* sends a startup alert when the startup cooldown allows and nothing otherwise.
C9_StartupNeverRecovery ==
  [][\A s \in Stores :
       HeartbeatStep(s, TRUE)
       => /\ AlertsOf(emitted', s, "recovery") = {}
          /\ lastRecoveryAlerts' = lastRecoveryAlerts
          /\ Has(allStores, s) =>
               IF StartupCooldownAllows(s)
               THEN OneAlert(emitted', s, "startup", "low")
               ELSE emitted' = <<>>]_vars

\* C9 witness: a heartbeat with is_startup = true has been processed for a store
\* whose status was offline, and its startup alert sent.
C9_Witness ==
  /\ last.op = "heartbeat" /\ last.previous = "offline" /\ last.isStartup
  /\ OneAlert(emitted, last.store, "startup", "low")

\* C10: two startup alerts of one store, sent by heartbeats processed one after
\* the other, are never less than 10 min apart.
C10_StartupCooldown ==
  last.op = "heartbeat" =>
    \A i \in AlertsOf(emitted, last.store, "startup") :
      last.prevSent[last.store].startup # NoTime =>
        now - last.prevSent[last.store].startup >= Minutes(StartupCooldownMinutes)

\* C10 witness: a heartbeat with is_startup = true for a store of the registry
\* has sent the store's second startup alert.
C10_Witness ==
  /\ last.op = "heartbeat" /\ last.isStartup /\ last.previous # "NEW"
  /\ AlertsOf(emitted, last.store, "startup") # {}
  /\ last.prevSent[last.store].startup # NoTime

PostStep(body, failAt) ==
  \E alertOk \in BOOLEAN :
    \/ request'.path = "/heartbeat" /\ PostHeartbeat(body, failAt, alertOk)
    \/ request'.path = "/heartbeat/buffered"
         /\ PostHeartbeatBuffered(body, failAt, alertOk)

\* The body of the request the step serves.
ServedBody ==
  [store_id |-> request'.store_id, is_startup |-> request'.is_startup,
   timestamp |-> request'.timestamp]

\* The step serves a heartbeat of a store in `ids` on either route, its
\* transaction failing at one of `fails`.
PostServed(ids, fails) ==
  /\ request'.path \in {"/heartbeat", "/heartbeat/buffered"}
  /\ request'.store_id \in ids
  /\ \E failAt \in fails :
       /\ (failAt = "none") = (dbFailures' = dbFailures)
       /\ PostStep(ServedBody, failAt)

C14_PersistenceFailureStillAcks ==
  [][PostServed(Stores, FailPoints \ {"none"})
       => LET s == request'.store_id IN
          /\ allStores'[s] = [status |-> "online", last_heartbeat |-> now,
                              data |-> "payload"]
          /\ ~Has(allStores, s) => OneAlert(emitted', s, "startup", "low")
          /\ (/\ Has(allStores, s) /\ allStores[s].status = "offline"
              /\ ~request'.is_startup /\ RecoveryCooldownAllows(s))
             => OneAlert(emitted', s, "recovery", "medium")
          /\ response'.code = 200
          /\ response'.status = "success"
          /\ response'.total_stores_monitored = Cardinality(DOMAIN allStores')
          /\ UNCHANGED <<dbStores, heartbeat_history, system_stats>>]_vars

\* C14 witness: the first heartbeat of a store was served while the database
\* failed: the store is in the registry, not in table stores, the startup alert
\* was sent and the answer was 200.
C14_Witness ==
  /\ request.path = "/heartbeat" /\ request.store_id \in Stores
  /\ response.code = 200 /\ response.total_stores_monitored = 1
  /\ dbFailures > 0
  /\ Has(allStores, request.store_id) /\ ~Has(dbStores, request.store_id)
  /\ OneAlert(emitted, request.store_id, "startup", "low")

\* C15: a heartbeat whose transaction commits adds exactly one row to
\* heartbeat_history and one to system_stats and writes the stores row; one whose
\* transaction fails at any point adds nothing; so after every step the two
\* tables hold the same number of rows per store, and a store with such rows
\* has a row in table stores.
C15_HistoryAndStatsInStep ==
  [][/\ \A s \in StoreIds :
          /\ heartbeat_history'[s] = system_stats'[s]
          /\ heartbeat_history'[s] > 0 => Has(dbStores', s)
     /\ PostServed(Stores, {"none"})
          => LET s == request'.store_id IN
             /\ heartbeat_history'[s] = heartbeat_history[s] + 1
             /\ system_stats'[s] = system_stats[s] + 1
             /\ dbStores'[s] = [status |-> "online", last_heartbeat |-> now]
     /\ PostServed(Stores, FailPoints \ {"none"})
          => UNCHANGED <<heartbeat_history, system_stats, dbStores>>]_vars

\* C15 witness: after a rolled back transaction and a committed one the store
\* has as many heartbeat_history rows as system_stats rows, more than the
\* earlier process left.
C15_Witness ==
  /\ last.op = "heartbeat" /\ dbFailures > 0
  /\ Has(dbStores, last.store) /\ dbStores[last.store].last_heartbeat = now
  /\ heartbeat_history[last.store] = MaxRows
  /\ system_stats[last.store] = MaxRows

\* C16: a heartbeat whose body has no store_id is answered with a 4xx status
\* and changes neither the registry, nor the tables, nor the cooldown maps, and
\* sends no alert.
C16_MissingStoreIdRejected ==
  [][PostServed({Undefined}, FailPoints)
       => /\ response'.code \in 400..499
          /\ emitted' = <<>>
          /\ UNCHANGED <<allStores, dbStores, heartbeat_history, system_stats,
                         alerts, lastOfflineAlerts, lastRecoveryAlerts,
                         lastStartupAlerts>>]_vars

\* C17: from any state, a body delivered on /heartbeat/buffered changes the
\* registry record, the tables, the cooldown maps and the alerts exactly as the
\* handler of /heartbeat does for that body; the answers differ in the field
\* buffered only.
C17_BufferedAsLive ==
  [][\A failAt \in FailPoints :
       /\ request'.path = "/heartbeat/buffered"
       /\ PostHeartbeatBuffered(ServedBody, failAt, TRUE)
       => /\ IngestHeartbeat(ServedBody, failAt, TRUE)
          /\ response' = [HeartbeatResponse(FALSE, failAt, allStores')
                            EXCEPT !.buffered = TRUE]
          /\ emitted' = HeartbeatAlerts(request'.store_id, request'.is_startup)]_vars

\* C17 witness: a body with is_startup = true was served on the buffered route
\* for a store of the registry and its startup alert was sent.
C17_Witness ==
  /\ request.path = "/heartbeat/buffered" /\ request.is_startup
  /\ request.store_id \in Stores
  /\ last.previous \in {"online", "offline"}
  /\ response.buffered /\ response.code = 200
  /\ OneAlert(emitted, request.store_id, "startup", "low")

\* The addresses configured under a key.
Configured(k) == IF Has(storeEmailConfig, k) THEN storeEmailConfig[k] ELSE {}

\* A handler whose inserts into alerts succeed, as an action formula.
DispatchStep ==
  \/ \E body \in Bodies(Stores), failAt \in FailPoints : PostHeartbeat(body, failAt, TRUE)
  \/ \E updOk \in BOOLEAN, syncOk \in BOOLEAN : IngestSweep(updOk, syncOk, TRUE)
  \/ \E s \in Stores : TestEmail(s, TRUE)

\* C18: a sendAlert call for a store with a row in table stores, whose insert
\* the database accepts, persists its alert row whether or not anyone is
\* configured; with no address under the store's key nor under "default" no
\* mail is queued; a mail goes to the store's addresses when it has any, and to
\* the default addresses otherwise.
C18_Recipients ==
  [][/\ emitted' # <<>> /\ DispatchStep =>
          \A i \in 1..Len(emitted') :
            Has(dbStores', emitted'[i].store) => dispatched'[i].rows # {}
     /\ \A i \in 1..Len(dispatched') :
          LET s == dispatched'[i].store IN
          /\ Configured(s) = {} /\ Configured("default") = {}
             => dispatched'[i].mails = {}
          /\ \A m \in dispatched'[i].mails :
               m.to = IF Configured(s) # {} THEN Configured(s)
                      ELSE Configured("default")]_vars

\* C18 witness: with mail enabled and no address configured at all, an alert
\* was dispatched: its row is in table alerts and no mail was queued.
C18_Witness ==
  /\ emailEnabled /\ DOMAIN storeEmailConfig = {}
  /\ dispatched # <<>>
  /\ dispatched[1].rows # {} /\ dispatched[1].rows \subseteq alerts
  /\ dispatched[1].mails = {}

\* C19: every row of table alerts has an alert_type of the schema's ENUM; a
\* sendAlert call of kind startup or recovery writes its row as test and one of
\* kind offline as offline, and the mail it queues carries the original kind.
C19_AlertTypeNarrowed ==
  /\ \A r \in alerts : r.alert_type \in AlertTypes
  /\ Len(dispatched) = Len(emitted)
  /\ \A i \in 1..Len(dispatched) :
       /\ \A r \in dispatched[i].rows :
            r.alert_type = IF emitted[i].kind \in {"startup", "recovery"}
                           THEN "test" ELSE "offline"
       /\ \A m \in dispatched[i].mails : m.subject = emitted[i].kind

\* C19 witness: a recovery alert was dispatched, its row written as test and
\* its mail queued as recovery, while table alerts also holds an offline row.
C19_Witness ==
  /\ \E r \in alerts : r.alert_type = "offline"
  /\ \E i \in 1..Len(dispatched) :
       /\ emitted[i].kind = "recovery"
       /\ \E r \in dispatched[i].rows : r.alert_type = "test"
       /\ \E m \in dispatched[i].mails : m.subject = "recovery"

Startups(hs) == {k \in 1..Len(hs) : hs[k].is_startup}

\* C21: within one client boot the server is handed at most one heartbeat with
\* is_startup = true, counting the live sends and the buffered entries replayed
\* later.
C21_OneStartupPerBoot == Cardinality(Startups(handed)) <= 1

\* The buffered heartbeats the client holds, table and memory buffer together.
Enqueued == Len(heartbeat_buffer) + Len(heartbeatBuffer)

\* The heartbeat enqueued last is the one holding the id the step took.
EnqueuedOne ==
  /\ nextId' = nextId + 1
  /\ \/ Len(heartbeat_buffer') = Len(heartbeat_buffer) + 1
        /\ heartbeat_buffer'[Len(heartbeat_buffer')].id = nextId
        /\ heartbeatBuffer' = heartbeatBuffer
     \/ heartbeatBuffer' # <<>>
        /\ heartbeatBuffer'[Len(heartbeatBuffer')].id = nextId
        /\ heartbeat_buffer' = heartbeat_buffer

\* C22: a live send that is answered with a 2xx status resets
\* consecutiveFailures to 0, records lastSuccessfulConnection and goes on to
\* the buffer drain, enqueuing nothing; one that ends in an error (network
\* error, timeout, status outside 2xx) adds exactly 1 to consecutiveFailures
\* and enqueues exactly one heartbeat, with no drain.
C22_LiveSendOutcome ==
  [][\A i \in 1..Len(calls) :
       /\ calls[i].pc = "post" =>
            /\ \A status \in {"200", "2xx"}, storeOk \in BOOLEAN :
                 sendHeartbeatAnswered(i, status, storeOk) =>
                   /\ consecutiveFailures' = 0
                   /\ lastSuccessfulConnection' = clientNow
                   /\ calls'[i].pc = "select"
                   /\ nextId' = nextId /\ Enqueued' = Enqueued
            /\ \A storeOk \in BOOLEAN :
                 sendHeartbeatAnswered(i, "error", storeOk) =>
                   /\ consecutiveFailures' = consecutiveFailures + 1
                   /\ calls'[i].pc = "catch"
                   /\ nextId' = nextId /\ Enqueued' = Enqueued
       /\ calls[i].pc = "catch" =>
            \A storeOk \in BOOLEAN :
              sendHeartbeatCaught(i, storeOk) =>
                /\ consecutiveFailures' = consecutiveFailures
                /\ calls'[i].pc = "done"
                /\ EnqueuedOne
    ]_vars

\* The buffered heartbeats a drain can take: the unsent rows of the table, or
\* the entries of the memory buffer when there is no connection.
Pending ==
  IF localDb = "connected"
  THEN {heartbeat_buffer[k] : k \in {j \in 1..Len(heartbeat_buffer) : ~heartbeat_buffer[j].sent}}
  ELSE {heartbeatBuffer[k] : k \in 1..Len(heartbeatBuffer)}

\* C23: a call comes to a buffer drain only from a live send answered 200 or
\* from stop(); the batch a drain reads holds at most 10 rows, all of them
\* unsent, in ascending id, and no unsent row older than one of them is left
\* out; the loop posts the batch from its head, so in that order.
C23_DrainBatch ==
  [][\A i \in 1..Len(calls') :
       LET old == IF i <= Len(calls) THEN calls[i] ELSE NewCall("none")
           new == calls'[i]
       IN
       /\ new.pc = "select" /\ old.pc # "select" =>
            \/ old.pc = "post" /\ consecutiveFailures' = 0
               /\ lastSuccessfulConnection' = clientNow /\ delivered'
            \/ old.pc = "none" /\ running /\ ~running'
       /\ new.pc = "drain" => old.pc \in {"select", "drain"}
       /\ old.pc = "select" /\ new.pc # "select" =>
            /\ Len(new.batch) <= BatchLimit
            /\ Rows(new.batch) \subseteq Pending
            /\ \A k, l \in 1..Len(new.batch) : k < l => new.batch[k].id < new.batch[l].id
            /\ new.batch # <<>> =>
                 \A e \in Pending \ Rows(new.batch) :
                   /\ Len(new.batch) = BatchLimit
                   /\ \A r \in Rows(new.batch) : r.id < e.id
       /\ old.pc = "drain" /\ new # old =>
            new.batch \in {Tail(old.batch), <<>>}
    ]_vars

\* C23 witness: a drain stands in its loop with a full batch of 10 rows read
\* from a table that holds more unsent rows than that, and rows already sent.
C23_Witness ==
  \E i \in 1..Len(calls) :
    /\ calls[i].pc = "drain" /\ Len(calls[i].batch) = BatchLimit
    /\ localDb = "connected"
    /\ Cardinality(Pending) > BatchLimit
    /\ \E k \in 1..Len(heartbeat_buffer) : heartbeat_buffer[k].sent

C27_AckedDoesNotResurface ==
  [][\A i \in 1..Len(calls) :
       calls[i].pc = "select" /\ calls'[i].pc = "drain" =>
         \A r \in Rows(calls'[i].batch) : r.id \notin acked
    ]_vars

\* C28: without a local database the memory buffer never holds more than 100
\* entries; the enqueue that finds 100 leaves the 50 newest, the 49 newest of
\* the old ones in their order and then the new one, and any other enqueue
\* appends the new entry.
C28_MemoryBufferTrim ==
  [][/\ Len(heartbeatBuffer') <= MemoryBufferLimit
     /\ localDb # "connected" /\ nextId' = nextId + 1 =>
          LET n == Len(heartbeatBuffer)
              m == Len(heartbeatBuffer')
          IN /\ m > 0 /\ heartbeatBuffer'[m].id = nextId
             /\ IF n = MemoryBufferLimit
                THEN /\ m = MemoryBufferKeep
                     /\ \A k \in 1..(m - 1) :
                          heartbeatBuffer'[k] = heartbeatBuffer[n - (m - 1) + k]
                ELSE /\ m = n + 1
                     /\ \A k \in 1..n : heartbeatBuffer'[k] = heartbeatBuffer[k]
    ]_vars

\* C28 witness: the 101st failed send has been enqueued and the memory buffer
\* holds the entries 52..101.
C28_Witness ==
  /\ localDb = "failed"
  /\ Len(heartbeatBuffer) = MemoryBufferKeep
  /\ heartbeatBuffer[1].id = MemoryBufferLimit - MemoryBufferKeep + 2
  /\ heartbeatBuffer[MemoryBufferKeep].id = MemoryBufferLimit + 1

\* The ids of the buffered heartbeats the replaying client starts with.
BufferIds == 1..(BatchLimit + 1)

\* The buffered heartbeat of that id is still to be replayed.
IsPending(id) == \E e \in Pending : e.id = id

\* C25: with live sends succeeding, every buffered heartbeat that
\* /heartbeat/buffered answers with 200 is in the end posted and marked sent
\* (removed from the memory buffer); no row is marked sent without that
\* answer; and a buffered heartbeat that was not acked stays pending until it
\* is older than the 24 hours of retention.
C25_AckedEventuallySent ==
  /\ \A id \in BufferIds :
       (IsPending(id) /\ id \notin refused) ~> (id \in acked /\ ~IsPending(id))
  /\ [](\A k \in 1..Len(heartbeat_buffer) :
          heartbeat_buffer[k].sent => heartbeat_buffer[k].id \in acked)
  /\ [][\A e \in Pending \ Pending' :
          e.id \in acked' \/ clientNow - e.at > RetentionHours]_vars

\* C26: a buffered heartbeat that a drain has passed over for a reason other
\* than a network error does not keep a newer one from being replayed: a batch
\* that leaves out a pending heartbeat never passed over holds none that was.
C26_SkippedDoNotBlock ==
  [][\A i \in 1..Len(calls) :
       Len(calls') = Len(calls) /\ calls[i].pc = "select" /\ calls'[i].pc = "drain" =>
         LET batch == Rows(calls'[i].batch) IN
         (\E e \in Pending \ batch : e.id \notin skipped) =>
           \A r \in batch : r.id \notin skipped
    ]_vars

\* The buffered heartbeats the client holds, sent or not.
Held ==
  {heartbeat_buffer[k] : k \in 1..Len(heartbeat_buffer)}
    \cup {heartbeatBuffer[k] : k \in 1..Len(heartbeatBuffer)}

\* C29: clearOldBufferedHeartbeats deletes the buffered heartbeats older than
\* 24 hours and no other, from the table and from the memory buffer alike.
C29_GcOnlyPastRetention ==
  [][\A gcOk \in BOOLEAN :
       clearOldBufferedHeartbeats(gcOk) =>
         /\ \A e \in Held \ Held' : clientNow - e.at > RetentionHours
         /\ gcOk => \A e \in Held' : ~(clientNow - e.at > RetentionHours)
    ]_vars

\* The processHeartbeat calls that have made a sendAlert call of kind startup.
StartupAlerts == {i \in 1..Len(heartbeats) : heartbeats[i].alert = "startup"}

\* C30: two startup alerts sent for heartbeats with is_startup = true of a
\* store the registry knew when they came are more than 10 minutes apart,
\* however the processHeartbeat calls interleave at their awaits.
C30_StartupCooldownAtomic ==
  \A i, j \in StartupAlerts :
    /\ i # j
    /\ heartbeats[i].store = heartbeats[j].store
    /\ heartbeats[i].is_startup /\ ~heartbeats[i].isFirstHeartbeat
    /\ heartbeats[j].is_startup /\ ~heartbeats[j].isFirstHeartbeat
    => \/ heartbeats[j].alertAt - heartbeats[i].alertAt > Minutes(StartupCooldownMinutes)
       \/ heartbeats[i].alertAt - heartbeats[j].alertAt > Minutes(StartupCooldownMinutes)

\* C31: a sweep that runs right after another sweep at the same instant, no
\* other handler in between and no store of table stores left to hydrate,
\* sends no alert and leaves the registry and the three cooldown Maps as they
\* were.
C31_SweepIdempotent ==
  [][/\ last.op = "sweep"
     /\ DOMAIN dbStores \subseteq DOMAIN allStores
     /\ SweepStep
     => /\ emitted' = <<>>
        /\ allStores' = allStores
        /\ lastOfflineAlerts' = lastOfflineAlerts
        /\ lastRecoveryAlerts' = lastRecoveryAlerts
        /\ lastStartupAlerts' = lastStartupAlerts
    ]_vars

\* The record of store s has no last_heartbeat.
NeverHeard(s) == Has(allStores, s) /\ allStores[s].last_heartbeat = NoTime

\* C32: a sweep leaves the record of a store without last_heartbeat as it was,
\* sends no alert for it and leaves its entries of the three cooldown Maps as
\* they were.
C32_NoHeartbeatSkipped ==
  [][\A s \in Stores :
       NeverHeard(s) /\ SweepStep
       => /\ allStores'[s] = allStores[s]
          /\ \A i \in 1..Len(emitted') : emitted'[i].store # s
          /\ \A m \in {<<lastOfflineAlerts, lastOfflineAlerts'>>,
                       <<lastRecoveryAlerts, lastRecoveryAlerts'>>,
                       <<lastStartupAlerts, lastStartupAlerts'>>} :
               /\ Has(m[2], s) = Has(m[1], s)
               /\ Has(m[1], s) => m[2][s] = m[1][s]
    ]_vars

\* C32 witness: well past the alert threshold a sweep has run over a store
\* that was in the registry before it with status unknown and no
\* last_heartbeat.
C32_Witness ==
  /\ last.op = "sweep" /\ last.hydrated = {}
  /\ now > Minutes(alertThresholdMinutes) + 1
  /\ \E s \in Stores : NeverHeard(s) /\ allStores[s].status = "unknown"

\* C40: every sendAlert call that has queued a mail has inserted its row into
\* table alerts, and the row is in the table: a call whose insert failed has
\* queued no mail.
C40_MailOnlyAfterRow ==
  \A i \in 1..Len(dispatched) :
    dispatched[i].mails # {} =>
      /\ dispatched[i].rows # {}
      /\ dispatched[i].rows \subseteq alerts

\* C40 witness: with mail enabled and addresses configured for the store, a
\* sendAlert call whose insert failed has left no row and queued no mail.
C40_Witness ==
  /\ emailEnabled
  /\ \E i \in 1..Len(dispatched) :
       /\ getEmailRecipients(dispatched[i].store) # {}
       /\ dispatched[i].rows = {} /\ dispatched[i].mails = {}

\* C33: a transporter.sendMail call that fails takes its mail off the queue
\* and queues nothing again, and leaves the registry, the three cooldown Maps
\* and table alerts as they were.
C33_FailedMailDropped ==
  [][/\ Len(mailLog') = Len(mailLog) + 1
     /\ ~mailLog'[Len(mailLog')].ok
     => /\ Len(outbox') = Len(outbox) - 1
        /\ allStores' = allStores
        /\ lastOfflineAlerts' = lastOfflineAlerts
        /\ lastRecoveryAlerts' = lastRecoveryAlerts
        /\ lastStartupAlerts' = lastStartupAlerts
        /\ alerts' = alerts
    ]_vars

\* C33 witness: the mail of an offline alert has failed, nothing is queued,
\* the alert's row is in table alerts and the store is still offline.
C33_Witness ==
  /\ outbox = <<>>
  /\ \E k \in 1..Len(mailLog) : ~mailLog[k].ok /\ mailLog[k].mail.subject = "offline"
  /\ \E r \in alerts : r.alert_type = "offline"
  /\ \E s \in Stores : Has(allStores, s) /\ allStores[s].status = "offline"

\* C34: once stop() has run no timer starts a sendHeartbeat call; the
\* connection to the local database is ended only after the drain of stop()
\* has finished; and no SELECT of a drain and no UPDATE ... SET sent = TRUE is
\* executed on the connection after its end.
C34_GracefulShutdown ==
  /\ [][stopAt # 0 => Len(calls') = Len(calls)]_vars
  /\ [](closed => stopAt # 0 /\ calls[stopAt].pc = "done" /\ ~running)
  /\ [](onClosed \cap {"select", "update"} = {})

\* C35: building a payload runs a network speed measurement only when it is
\* the first payload of the process, whatever the cache holds; and
\* this.networkSpeedHistory never holds more than 5 samples.
C35_SpeedAmortized ==
  /\ [][payloads' = payloads + 1 /\ lastBuildMeasured' => payloads = 0]_vars
  /\ [](Len(networkSpeedHistory) <= SpeedHistoryLimit)

\* C36: the start-up load never replaces a record the registry already holds:
\* the record a heartbeat has written while the SELECT of the load was on its
\* way is the same after the load has run over its rows.
C36_LoadKeepsExisting ==
  [][loading.pc = "rows" /\ loading'.pc = "done"
       => \A s \in DOMAIN allStores : allStores'[s] = allStores[s]]_vars

\* C38: of the heartbeats without is_startup that the server takes for one
\* store at one instant, the calls overlapping, only one reads the previous
\* status offline and only one makes a recovery alert; the call that finds
\* the record offline is that one, and it leaves the record online.
C38_OneRecoveryPerOutage ==
  /\ [](\A i, j \in 1..Len(heartbeats) :
          i < j /\ heartbeats[i].store = heartbeats[j].store =>
            /\ ~(heartbeats[i].wasOffline /\ heartbeats[j].wasOffline)
            /\ ~(heartbeats[i].alert = "recovery" /\ heartbeats[j].alert = "recovery"))
  /\ [][\A s \in Stores :
          /\ Len(heartbeats') = Len(heartbeats) + 1
          /\ heartbeats'[Len(heartbeats')].store = s
          /\ Has(allStores, s) /\ allStores[s].status = "offline"
          => /\ heartbeats'[Len(heartbeats')].wasOffline
             /\ allStores'[s].status = "online"]_vars

\* C39: every recovery alert of table alerts comes after an offline alert
\* with no recovery alert between the two, whatever the order in which the
\* sweep, the heartbeats and the start-up load take their steps.
C39_RecoveryAnswersOffline ==
  \A j \in 1..Len(alertLog) :
    alertLog[j] = "recovery" =>
      \E i \in 1..(j - 1) :
        /\ alertLog[i] = "offline"
        /\ \A k \in (i + 1)..(j - 1) : alertLog[k] # "recovery"

\* C37: a heartbeat pushed to the memory buffer while initLocalDatabase was
\* still connecting is read by the drains that run once the connection is
\* made: the batch such a drain takes holds the entry, as long as table and
\* memory together hold no more than one batch of unsent heartbeats.
C37_MemoryEntriesDrained ==
  [][\A i \in 1..Len(calls) :
       /\ Len(calls') = Len(calls)
       /\ calls[i].pc = "select" /\ calls'[i].pc # "select"
       /\ localDb = "connected"
       /\ Len(Unsent(heartbeat_buffer)) + Len(heartbeatBuffer) <= BatchLimit
       => \A k \in 1..Len(heartbeatBuffer) :
            \E m \in 1..Len(calls'[i].batch) :
              calls'[i].batch[m].id = heartbeatBuffer[k].id]_vars
====
